---------------------------- MODULE Spec2Model ----------------------------
(***************************************************************************)
(* Model of the metered execution core of soroban-env-host:                *)
(*   budget.rs  - MeteredCostComponent, BudgetDimension, MeterTracker,     *)
(*                BudgetImpl, Budget, the depth limiter and the wasmi fuel *)
(*                bridge.                                                  *)
(*                                                                         *)
(* Integer widths.  TLC evaluates with 32-bit signed integers, so the      *)
(* unsigned 64-bit and 32-bit words of the program are modelled as 31-bit  *)
(* unsigned words: every saturating operation saturates at U64_MAX (resp.  *)
(* U32_MAX) = 2^31 - 1 and is computed without ever forming a larger       *)
(* intermediate value.  All default limits and cost constants of the       *)
(* program fit in 31 bits and are kept at their real values.               *)
(***************************************************************************)
EXTENDS Integers, Sequences, FiniteSets, TLC

(***************************************************************************)
(* Bounds of the model (not program constants).                            *)
(***************************************************************************)
\* Charges accepted between two resets of the dimensions.
MaxCharges == 2
\* Nesting depth of with_free_budget calls.
MaxFreeNesting == 2
\* Value taken for DEFAULT_HOST_DEPTH_LIMIT, which is defined outside budget.rs.
DEFAULT_HOST_DEPTH_LIMIT == 3
\* leave() calls explored beyond the initial depth limit.
MaxExtraLeave == 1

(***************************************************************************)
(* Program constants.                                                      *)
(***************************************************************************)
U64_MAX == 2147483647
U32_MAX == 2147483647
DEFAULT_CPU_INSN_LIMIT == 100000000
DEFAULT_MEM_BYTES_LIMIT == 100 * 1024 * 1024
COST_MODEL_LIN_TERM_SCALE_BITS == 7

\* Result values (HostError type/code pairs).
Ok == "Ok"
BudgetExceededLimit == "Budget/ExceededLimit"
ContextExceededLimit == "Context/ExceededLimit"
ContextInternalError == "Context/InternalError"
ContextInvalidInput == "Context/InvalidInput"

\* Option<u64>
None == [some |-> FALSE, v |-> 0]
Some(x) == [some |-> TRUE, v |-> x]

(***************************************************************************)
(* Saturating word arithmetic (u64::saturating_add / _mul / _sub).         *)
(***************************************************************************)
\* Variant of saturating_add: the sum wraps around the word (u64::wrapping_add).
wrapping_add(a, b) == IF a > U64_MAX - b THEN a - (U64_MAX - b) - 1 ELSE a + b

saturating_add(a, b) == IF a > U64_MAX - b THEN U64_MAX ELSE a + b

saturating_mul(a, b) ==
    IF a = 0 \/ b = 0 THEN 0
    ELSE IF a > U64_MAX \div b THEN U64_MAX ELSE a * b

saturating_sub(a, b) == IF b > a THEN 0 ELSE a - b

u32_saturating_add(a, b) == IF a > U32_MAX - b THEN U32_MAX ELSE a + b

Max(a, b) == IF a >= b THEN a ELSE b

(***************************************************************************)
(* ContractCostType: the variants in declaration order; `ty as usize` is   *)
(* the position in this order, counted from 0.                             *)
(***************************************************************************)
ContractCostTypeVariants ==
    << "WasmInsnExec", "WasmMemAlloc", "HostMemAlloc", "HostMemCpy", "HostMemCmp",
       "DispatchHostFunction", "VisitObject", "ValSer", "ValDeser",
       "ComputeSha256Hash", "ComputeEd25519PubKey", "MapEntry", "VecEntry",
       "VerifyEd25519Sig", "VmMemRead", "VmMemWrite", "VmInstantiation",
       "VmCachedInstantiation", "InvokeVmFunction", "ComputeKeccak256Hash",
       "ComputeEcdsaSecp256k1Key", "ComputeEcdsaSecp256k1Sig",
       "RecoverEcdsaSecp256k1Key", "Int256AddSub", "Int256Mul", "Int256Div",
       "Int256Pow", "Int256Shift" >>

NumCostTypes == Len(ContractCostTypeVariants)

CostTypes == { ContractCostTypeVariants[i] : i \in 1..NumCostTypes }

\* Index of ty in a Vec (sequences are 1-based: `ty as usize` + 1).
Idx(ty) == CHOOSE i \in 1..NumCostTypes : ContractCostTypeVariants[i] = ty

\* The cost types whose tracker input slot init_tracker seeds with Some(0).
LinearTypes ==
    { "HostMemAlloc", "HostMemCpy", "HostMemCmp", "ValSer", "ValDeser",
      "ComputeSha256Hash", "VerifyEd25519Sig", "VmMemRead", "VmMemWrite",
      "VmInstantiation", "VmCachedInstantiation", "ComputeKeccak256Hash" }

(***************************************************************************)
(* ScaledU64 and MeteredCostComponent.                                     *)
(***************************************************************************)
unscale(x) == x \div (2 ^ COST_MODEL_LIN_TERM_SCALE_BITS)

MeteredCostComponent(c, l) == [const_term |-> c, lin_term |-> l]

\* Variant of evaluate: the linear term is unscaled before it is multiplied.
evaluate_unscales_first(cm, input) ==
    IF input.some
    THEN IF cm.lin_term # 0
         THEN saturating_add(cm.const_term, saturating_mul(unscale(cm.lin_term), input.v))
         ELSE cm.const_term
    ELSE cm.const_term

evaluate(cm, input) ==
    IF input.some
    THEN IF cm.lin_term # 0
         THEN saturating_add(cm.const_term, unscale(saturating_mul(cm.lin_term, input.v)))
         ELSE cm.const_term
    ELSE cm.const_term

(***************************************************************************)
(* BudgetDimension.                                                        *)
(***************************************************************************)
BudgetDimension_new ==
    [ cost_models |-> [i \in 1..NumCostTypes |-> MeteredCostComponent(0, 0)],
      limit       |-> 0,
      counts      |-> [i \in 1..NumCostTypes |-> 0],
      total_count |-> 0 ]

\* cost_params: a sequence of <<const_term, linear_term>> pairs, all >= 0 here.
BudgetDimension_try_from_config(cost_params) ==
    [ cost_models |-> [i \in 1..Len(cost_params) |->
                          MeteredCostComponent(cost_params[i][1], cost_params[i][2])],
      limit       |-> 0,
      counts      |-> [i \in 1..Len(cost_params) |-> 0],
      total_count |-> 0 ]

get_cost_model(d, ty) == d.cost_models[Idx(ty)]

get_remaining(d) == saturating_sub(d.limit, d.total_count)

\* Variant of reset: the per-type counts are not zeroed.
BudgetDimension_reset_keeps_counts(d, limit) ==
    [d EXCEPT !.limit = limit, !.total_count = 0]

BudgetDimension_reset(d, limit) ==
    [d EXCEPT !.limit = limit,
              !.total_count = 0,
              !.counts = [i \in DOMAIN d.counts |-> 0]]

\* Variant of is_over_budget: the limit itself already counts as an overrun.
is_over_budget_at_limit(d) == d.total_count >= d.limit

is_over_budget(d) == d.total_count > d.limit

\* The amount one charge adds: evaluate(input) saturating-times iterations.
ChargeAmount(d, ty, iterations, input) ==
    saturating_mul(evaluate(get_cost_model(d, ty), input), iterations)

\* Variant of charge: the overrun is checked first and a failing charge leaves
\* the counters as they were.
BudgetDimension_charge_rolled_back(d, ty, iterations, input) ==
    LET amount == saturating_mul(evaluate(d.cost_models[Idx(ty)], input), iterations)
        d2 == [d EXCEPT !.counts[Idx(ty)] = saturating_add(@, amount),
                        !.total_count = saturating_add(@, amount)]
    IN IF d2.total_count > d2.limit
       THEN [dim |-> d, res |-> BudgetExceededLimit]
       ELSE [dim |-> d2, res |-> Ok]

\* The panic of an index past the end of a Vec.
IndexOutOfBounds == "panic: index out of bounds"

\* BudgetDimension::charge: the dimension after the call and the value returned.
\* get_cost_model indexes cost_models with `ty as usize` and panics when the
\* schedule the dimension was built from has no such entry.
BudgetDimension_charge(d, ty, iterations, input) ==
    IF Idx(ty) \notin DOMAIN d.cost_models
    THEN [dim |-> d, res |-> IndexOutOfBounds]
    ELSE LET amount == ChargeAmount(d, ty, iterations, input)
             d2 == [d EXCEPT !.counts[Idx(ty)] = saturating_add(@, amount),
                             !.total_count = saturating_add(@, amount)]
         IN [ dim |-> d2,
              res |-> IF is_over_budget(d2) THEN BudgetExceededLimit ELSE Ok ]


(***************************************************************************)
(* MeterTracker.                                                           *)
(***************************************************************************)
\* #[derive(Default)]: every entry (0, None), count 0.
MeterTracker_default ==
    [ cost_tracker |-> [i \in 1..NumCostTypes |-> [iters |-> 0, input |-> None]],
      count        |-> 0 ]

\* Variant of MeterTracker::reset: every input slot is emptied.
MeterTracker_reset_to_none(t) ==
    [ cost_tracker |-> [i \in DOMAIN t.cost_tracker |-> [iters |-> 0, input |-> None]],
      count        |-> 0 ]

MeterTracker_reset(t) ==
    [ cost_tracker |-> [i \in DOMAIN t.cost_tracker |->
                           [ iters |-> 0,
                             input |-> IF t.cost_tracker[i].input.some
                                       THEN Some(0) ELSE None ]],
      count        |-> 0 ]

\* BudgetImpl::init_tracker: the input slot of every linear type becomes Some(0).
init_tracker(t) ==
    [t EXCEPT !.cost_tracker =
        [i \in DOMAIN t.cost_tracker |->
            IF ContractCostTypeVariants[i] \in LinearTypes
            THEN [t.cost_tracker[i] EXCEPT !.input = Some(0)]
            ELSE t.cost_tracker[i]]]

(***************************************************************************)
(* BudgetImpl.  A budget value is the record of the struct's fields.       *)
(***************************************************************************)
\* <<cpu const_term, cpu lin_term, mem const_term, mem lin_term>> per cost
\* type, in declaration order, as assigned by BudgetImpl::default.
DefaultCostParams ==
    << <<6, 0, 0, 0>>,              \* WasmInsnExec
       <<0, 0, 1, 0>>,              \* WasmMemAlloc
       <<1141, 1, 16, 128>>,        \* HostMemAlloc
       <<39, 24, 0, 0>>,            \* HostMemCpy
       <<20, 64, 0, 0>>,            \* HostMemCmp
       <<263, 0, 0, 0>>,            \* DispatchHostFunction
       <<108, 0, 0, 0>>,            \* VisitObject
       <<591, 69, 18, 384>>,        \* ValSer
       <<1112, 34, 16, 128>>,       \* ValDeser
       <<2924, 4149, 40, 0>>,       \* ComputeSha256Hash
       <<25584, 0, 0, 0>>,          \* ComputeEd25519PubKey
       <<53, 0, 0, 0>>,             \* MapEntry
       <<0, 0, 0, 0>>,              \* VecEntry
       <<376877, 2747, 0, 0>>,      \* VerifyEd25519Sig
       <<182, 24, 0, 0>>,           \* VmMemRead
       <<182, 24, 0, 0>>,           \* VmMemWrite
       <<967154, 69991, 131103, 5080>>,  \* VmInstantiation
       <<967154, 69991, 131103, 5080>>,  \* VmCachedInstantiation
       <<1125, 0, 14, 0>>,          \* InvokeVmFunction
       <<2890, 3561, 40, 0>>,       \* ComputeKeccak256Hash
       <<38363, 0, 0, 0>>,          \* ComputeEcdsaSecp256k1Key
       <<224, 0, 0, 0>>,            \* ComputeEcdsaSecp256k1Sig
       <<1666155, 0, 201, 0>>,      \* RecoverEcdsaSecp256k1Key
       <<1716, 0, 119, 0>>,         \* Int256AddSub
       <<2226, 0, 119, 0>>,         \* Int256Mul
       <<2333, 0, 119, 0>>,         \* Int256Div
       <<5212, 0, 119, 0>>,         \* Int256Pow
       <<412, 0, 119, 0>> >>        \* Int256Shift

\* FuelConfig::default
FuelConfig_default == [base |-> 1, entity |-> 2, load |-> 1, store |-> 1, call |-> 41]

\* impl Default for BudgetImpl
BudgetImpl_default ==
    LET cpu == [BudgetDimension_new EXCEPT !.cost_models =
                   [i \in 1..NumCostTypes |->
                       MeteredCostComponent(DefaultCostParams[i][1], DefaultCostParams[i][2])]]
        mem == [BudgetDimension_new EXCEPT !.cost_models =
                   [i \in 1..NumCostTypes |->
                       MeteredCostComponent(DefaultCostParams[i][3], DefaultCostParams[i][4])]]
    IN [ cpu_insns   |-> BudgetDimension_reset(cpu, DEFAULT_CPU_INSN_LIMIT),
         mem_bytes   |-> BudgetDimension_reset(mem, DEFAULT_MEM_BYTES_LIMIT),
         tracker     |-> init_tracker(MeterTracker_default),
         enabled     |-> TRUE,
         fuel_config |-> FuelConfig_default,
         depth_limit |-> DEFAULT_HOST_DEPTH_LIMIT ]

\* BudgetImpl::try_from_configs, for schedules without negative terms.
BudgetImpl_try_from_configs(cpu_limit, mem_limit, cpu_cost_params, mem_cost_params) ==
    [ cpu_insns   |-> BudgetDimension_reset(
                          BudgetDimension_try_from_config(cpu_cost_params), cpu_limit),
      mem_bytes   |-> BudgetDimension_reset(
                          BudgetDimension_try_from_config(mem_cost_params), mem_limit),
      tracker     |-> init_tracker(MeterTracker_default),
      enabled     |-> TRUE,
      fuel_config |-> FuelConfig_default,
      depth_limit |-> DEFAULT_HOST_DEPTH_LIMIT ]

\* Variant of the tracker update: a call without input is accepted for every
\* cost type (match arm `(_, None) => ()`).
TrackerUpdate_accepts_none(t, ty, iterations, input) ==
    LET e  == t.cost_tracker[Idx(ty)]
        e1 == [e EXCEPT !.iters = saturating_add(@, iterations)]
        e2 == IF e.input.some /\ input.some
              THEN [e1 EXCEPT !.input =
                       Some(saturating_add(e.input.v, saturating_mul(input.v, iterations)))]
              ELSE e1
    IN [ tracker |-> [ cost_tracker |-> [t.cost_tracker EXCEPT ![Idx(ty)] = e2],
                       count        |-> u32_saturating_add(t.count, 1) ],
         matched |-> (~input.some \/ e.input.some) ]

\* Variant of the tracker update: the presence of the input is compared first
\* and a mismatch leaves the tracker as it was.
TrackerUpdate_checks_first(t, ty, iterations, input) ==
    LET e  == t.cost_tracker[Idx(ty)]
        e1 == [e EXCEPT !.iters = saturating_add(@, iterations)]
        e2 == IF e.input.some
              THEN [e1 EXCEPT !.input =
                       Some(saturating_add(e.input.v, saturating_mul(input.v, iterations)))]
              ELSE e1
    IN IF e.input.some # input.some
       THEN [tracker |-> t, matched |-> FALSE]
       ELSE [ tracker |-> [ cost_tracker |-> [t.cost_tracker EXCEPT ![Idx(ty)] = e2],
                            count        |-> u32_saturating_add(t.count, 1) ],
              matched |-> TRUE ]

\* The tracker update of BudgetImpl::charge (lines 447-455): the tracker after
\* it, and whether the presence of the slot matched the presence of `input`.
TrackerUpdate(t, ty, iterations, input) ==
    LET e  == t.cost_tracker[Idx(ty)]
        e1 == [e EXCEPT !.iters = saturating_add(@, iterations)]
        matched == (e.input.some = input.some)
        e2 == IF e.input.some /\ input.some
              THEN [e1 EXCEPT !.input =
                       Some(saturating_add(e.input.v, saturating_mul(input.v, iterations)))]
              ELSE e1
    IN [ tracker |-> [ cost_tracker |-> [t.cost_tracker EXCEPT ![Idx(ty)] = e2],
                       count        |-> u32_saturating_add(t.count, 1) ],
         matched |-> matched ]

\* The steps of BudgetImpl::charge after the `enabled` test (lines 446-459):
\* tracker, then cpu dimension, then memory dimension.
ChargeSteps(b, ty, iterations, input) ==
    LET tu == TrackerUpdate(b.tracker, ty, iterations, input)
        b1 == [b EXCEPT !.tracker = tu.tracker]
    IN IF ~tu.matched THEN [b |-> b1, res |-> ContextInternalError]
       ELSE
         LET c  == BudgetDimension_charge(b1.cpu_insns, ty, iterations, input)
             b2 == [b1 EXCEPT !.cpu_insns = c.dim]
         IN IF c.res # Ok THEN [b |-> b2, res |-> c.res]
            ELSE
              LET m == BudgetDimension_charge(b2.mem_bytes, ty, iterations, input)
              IN [b |-> [b2 EXCEPT !.mem_bytes = m.dim], res |-> m.res]

\* Variant of charge: both dimensions are charged before either result is
\* looked at, and the first error is returned.
BudgetImpl_charge_both_dimensions(b, ty, iterations, input) ==
    IF ~b.enabled THEN [b |-> b, res |-> Ok]
    ELSE
      LET tu == TrackerUpdate(b.tracker, ty, iterations, input)
          b1 == [b EXCEPT !.tracker = tu.tracker]
          c  == BudgetDimension_charge(b.cpu_insns, ty, iterations, input)
          m  == BudgetDimension_charge(b.mem_bytes, ty, iterations, input)
      IN IF ~tu.matched THEN [b |-> b1, res |-> ContextInternalError]
         ELSE [ b   |-> [b1 EXCEPT !.cpu_insns = c.dim, !.mem_bytes = m.dim],
                res |-> IF c.res # Ok THEN c.res ELSE m.res ]

\* Variant of charge: the tracker is updated before `enabled` is tested.
BudgetImpl_charge_tracks_when_disabled(b, ty, iterations, input) ==
    IF b.enabled THEN ChargeSteps(b, ty, iterations, input)
    ELSE [ b   |-> [b EXCEPT !.tracker =
                      TrackerUpdate(b.tracker, ty, iterations, input).tracker],
           res |-> Ok ]

\* Variant of charge: a budget that is over one of its limits refuses the
\* charge without counting it.
BudgetImpl_charge_latched(b, ty, iterations, input) ==
    IF ~b.enabled THEN [b |-> b, res |-> Ok]
    ELSE IF is_over_budget(b.cpu_insns) \/ is_over_budget(b.mem_bytes)
         THEN [b |-> b, res |-> BudgetExceededLimit]
         ELSE ChargeSteps(b, ty, iterations, input)

\* BudgetImpl::charge: the budget after the call and the value returned.
BudgetImpl_charge(b, ty, iterations, input) ==
    IF ~b.enabled THEN [b |-> b, res |-> Ok]
    ELSE ChargeSteps(b, ty, iterations, input)

\* Variant of the fuel conversion: the quotient is rounded up.
get_wasmi_fuel_remaining_rounded_up(b) ==
    LET cpu_remaining == saturating_sub(b.cpu_insns.limit, b.cpu_insns.total_count)
        cpu_per_fuel  == Max(b.cpu_insns.cost_models[Idx("WasmInsnExec")].const_term, 1)
    IN (cpu_remaining + cpu_per_fuel - 1) \div cpu_per_fuel

\* BudgetImpl::get_wasmi_fuel_remaining
get_wasmi_fuel_remaining(b) ==
    LET cpu_remaining == get_remaining(b.cpu_insns)
        cpu_per_fuel  == Max(get_cost_model(b.cpu_insns, "WasmInsnExec").const_term, 1)
    IN cpu_remaining \div cpu_per_fuel

\* Variant of enter: the last level of the depth limit is refused.
enter_refuses_last_level(b) ==
    IF b.depth_limit > 1
    THEN [b |-> [b EXCEPT !.depth_limit = @ - 1], res |-> Ok]
    ELSE [b |-> b, res |-> ContextExceededLimit]

\* Variant of enter: a budget whose metering is switched off does not count
\* the level.
enter_only_when_metered(b) ==
    IF ~b.enabled THEN [b |-> b, res |-> Ok]
    ELSE IF b.depth_limit >= 1
         THEN [b |-> [b EXCEPT !.depth_limit = @ - 1], res |-> Ok]
         ELSE [b |-> b, res |-> ContextExceededLimit]

\* impl DepthLimiter for BudgetImpl
enter(b) ==
    IF b.depth_limit >= 1
    THEN [b |-> [b EXCEPT !.depth_limit = @ - 1], res |-> Ok]
    ELSE [b |-> b, res |-> ContextExceededLimit]

leave(b) ==
    [b |-> [b EXCEPT !.depth_limit = u32_saturating_add(@, 1)], res |-> Ok]

\* Budget::reset_tracker
reset_tracker(b) == [b EXCEPT !.tracker = MeterTracker_reset(@)]

\* Variant of reset_limits: the tracker is left as it is.
reset_limits_keeps_tracker(b, cpu, mem) ==
    [b EXCEPT !.cpu_insns = BudgetDimension_reset(@, cpu),
              !.mem_bytes = BudgetDimension_reset(@, mem)]

\* Budget::reset_limits
reset_limits(b, cpu, mem) ==
    reset_tracker([b EXCEPT !.cpu_insns = BudgetDimension_reset(@, cpu),
                            !.mem_bytes = BudgetDimension_reset(@, mem)])

\* Budget::with_free_budget, first half (lines 979-984): the caller's local
\* `prev` and the budget with metering switched off.
with_free_budget_begin(b) ==
    [prev |-> b.enabled, b |-> [b EXCEPT !.enabled = FALSE]]

\* Variant of the second half: an error of f is propagated before the flag is
\* put back (`let res = f()?;`).
with_free_budget_end_error_first(b, prev, f_res) ==
    IF f_res # Ok THEN [b |-> b, res |-> f_res]
    ELSE [b |-> [b EXCEPT !.enabled = prev], res |-> f_res]

\* Budget::with_free_budget, second half (lines 986-992), entered when f has
\* returned f_res: the flag is put back and f's result is returned.
with_free_budget_end(b, prev, f_res) ==
    [b |-> [b EXCEPT !.enabled = prev], res |-> f_res]

(***************************************************************************)
(* State.                                                                  *)
(***************************************************************************)
VARIABLES
    cpu_insns,      \* BudgetImpl.cpu_insns : BudgetDimension
    mem_bytes,      \* BudgetImpl.mem_bytes : BudgetDimension
    tracker,        \* BudgetImpl.tracker : MeterTracker
    enabled,        \* BudgetImpl.enabled
    fuel_config,    \* BudgetImpl.fuel_config
    depth_limit,    \* BudgetImpl.depth_limit
    free_stack,     \* the `prev` locals of the with_free_budget calls in progress
    ret,            \* the last call made and the value it returned
    charges,        \* history: metered charges since the dimensions were last reset
    exceeded,       \* history: a charge returned ExceededLimit since the last reset
    nest,           \* history: successful enter() calls not yet matched by a leave()
    balanced,       \* history: no leave() was made without a matching enter()
    borrow,         \* the borrow flag of the RefCell that holds the BudgetImpl
    storage         \* the ledger entries held by the storage the host uses

vars == << cpu_insns, mem_bytes, tracker, enabled, fuel_config, depth_limit,
           free_stack, ret, charges, exceeded, nest, balanced, borrow, storage >>

\* The BudgetImpl value held by the shared handle.
Impl ==
    [ cpu_insns   |-> cpu_insns,
      mem_bytes   |-> mem_bytes,
      tracker     |-> tracker,
      enabled     |-> enabled,
      fuel_config |-> fuel_config,
      depth_limit |-> depth_limit ]

SetImpl(b) ==
    /\ cpu_insns'   = b.cpu_insns
    /\ mem_bytes'   = b.mem_bytes
    /\ tracker'     = b.tracker
    /\ enabled'     = b.enabled
    /\ fuel_config' = b.fuel_config
    /\ depth_limit' = b.depth_limit

Call(op, ty, iterations, input, res) ==
    [op |-> op, ty |-> ty, iterations |-> iterations, input |-> input, res |-> res]

ChargeOps == {"charge", "bulk_charge"}

(***************************************************************************)
(* Inputs explored.                                                        *)
(***************************************************************************)
\* A schedule in which one wasm fuel costs no cpu instruction (const_term 0 for
\* WasmInsnExec), the other entries as in the default table.
FreeInsnCpuParams ==
    [i \in 1..NumCostTypes |->
        IF i = 1 THEN <<0, 0>> ELSE <<DefaultCostParams[i][1], DefaultCostParams[i][2]>>]

DefaultMemParams ==
    [i \in 1..NumCostTypes |-> <<DefaultCostParams[i][3], DefaultCostParams[i][4]>>]

\* HostMemAlloc(Some(1024)) costs 1149 cpu instructions and 1040 bytes.
CpuLimits == {1149, DEFAULT_CPU_INSN_LIMIT}
MemLimits == {1040, DEFAULT_MEM_BYTES_LIMIT}

InitBudgets ==
    { BudgetImpl_default,
      BudgetImpl_try_from_configs(1000, 1040, FreeInsnCpuParams, DefaultMemParams) }

ChargeTypes == {"WasmInsnExec", "HostMemAlloc"}
ChargeInputs == {None, Some(1024)}
BulkIterations == {0, U64_MAX}

(***************************************************************************)
(* Initial state: a budget as constructed, no call made yet.               *)
(***************************************************************************)
Init ==
    /\ \E b \in InitBudgets :
          /\ cpu_insns   = b.cpu_insns
          /\ mem_bytes   = b.mem_bytes
          /\ tracker     = b.tracker
          /\ enabled     = b.enabled
          /\ fuel_config = b.fuel_config
          /\ depth_limit = b.depth_limit
    /\ free_stack = << >>
    /\ ret = Call("new", "WasmInsnExec", 0, None, Ok)
    /\ charges = 0
    /\ exceeded = FALSE
    /\ nest = 0
    /\ balanced = TRUE
    /\ borrow = "free"
    /\ storage = << >>

(***************************************************************************)
(* Actions: one per public operation.                                      *)
(***************************************************************************)
\* Budget::bulk_charge(ty, iterations, input); `op` names the entry point.
DoCharge(op, ty, iterations, input) ==
    /\ enabled => charges < MaxCharges
    /\ LET r == BudgetImpl_charge(Impl, ty, iterations, input)
       IN /\ SetImpl(r.b)
          /\ ret' = Call(op, ty, iterations, input, r.res)
          /\ exceeded' = (exceeded \/ r.res = BudgetExceededLimit)
    /\ charges' = IF enabled THEN charges + 1 ELSE charges
    /\ UNCHANGED << borrow, storage, free_stack, nest, balanced >>

\* Budget::charge(ty, input) = charge of one iteration.
Charge == \E ty \in ChargeTypes, input \in ChargeInputs : DoCharge("charge", ty, 1, input)

BulkCharge ==
    \E ty \in ChargeTypes, iterations \in BulkIterations, input \in ChargeInputs :
        DoCharge("bulk_charge", ty, iterations, input)

ResetLimits ==
    \E cpu \in CpuLimits, mem \in MemLimits :
        /\ SetImpl(reset_limits(Impl, cpu, mem))
        /\ ret' = Call("reset_limits", "WasmInsnExec", 0, None, Ok)
                     @@ [cpu |-> cpu, mem |-> mem]
        /\ charges' = 0
        /\ exceeded' = FALSE
        /\ UNCHANGED << borrow, storage, free_stack, nest, balanced >>

ResetTracker ==
    /\ SetImpl(reset_tracker(Impl))
    /\ ret' = Call("reset_tracker", "WasmInsnExec", 0, None, Ok)
    /\ UNCHANGED << borrow, storage, free_stack, charges, exceeded, nest, balanced >>

\* with_free_budget(f) up to the call of f.
WithFreeBudgetBegin ==
    /\ Len(free_stack) < MaxFreeNesting
    /\ LET r == with_free_budget_begin(Impl)
       IN /\ SetImpl(r.b)
          /\ free_stack' = << r.prev >> \o free_stack
    /\ ret' = Call("with_free_budget_begin", "WasmInsnExec", 0, None, Ok)
    /\ UNCHANGED << borrow, storage, charges, exceeded, nest, balanced >>

\* f returns f_res (success or an error of its own) and with_free_budget ends.
WithFreeBudgetEnd ==
    /\ free_stack # << >>
    /\ \E f_res \in {Ok, ContextInvalidInput} :
          LET r == with_free_budget_end(Impl, Head(free_stack), f_res)
          IN /\ SetImpl(r.b)
             /\ ret' = Call("with_free_budget", "WasmInsnExec", 0, None, r.res)
                          @@ [f_res |-> f_res]
    /\ free_stack' = Tail(free_stack)
    /\ UNCHANGED << borrow, storage, charges, exceeded, nest, balanced >>

Next ==
    \/ Charge
    \/ BulkCharge
    \/ ResetLimits
    \/ ResetTracker
    \/ WithFreeBudgetBegin
    \/ WithFreeBudgetEnd

Spec == Init /\ [][Next]_vars

(***************************************************************************)
(* The depth limiter: Budget::enter and Budget::leave, together with the   *)
(* metering operations that share the budget with them.                    *)
(***************************************************************************)
Enter ==
    /\ LET r == enter(Impl)
       IN /\ SetImpl(r.b)
          /\ ret' = Call("enter", "WasmInsnExec", 0, None, r.res)
          /\ nest' = IF r.res = Ok THEN nest + 1 ELSE nest
    /\ UNCHANGED << borrow, storage, free_stack, charges, exceeded, balanced >>

Leave ==
    /\ depth_limit < DEFAULT_HOST_DEPTH_LIMIT + MaxExtraLeave
    /\ LET r == leave(Impl)
       IN /\ SetImpl(r.b)
          /\ ret' = Call("leave", "WasmInsnExec", 0, None, r.res)
    /\ nest' = IF nest > 0 THEN nest - 1 ELSE 0
    /\ balanced' = (balanced /\ nest > 0)
    /\ UNCHANGED << borrow, storage, free_stack, charges, exceeded >>

NextDepth ==
    \/ Enter
    \/ Leave
    \/ Charge
    \/ ResetTracker
    \/ WithFreeBudgetBegin
    \/ WithFreeBudgetEnd

SpecDepth == Init /\ [][NextDepth]_vars

(***************************************************************************)
(* A BudgetDimension on its own: charge and reset called directly on the   *)
(* cpu dimension (BudgetImpl.cpu_insns is a public field).                 *)
(***************************************************************************)
\* HostMemCpy(Some(100)) costs 57 cpu instructions, WasmInsnExec costs 6.
DimLimits == {0, 12, 57, U64_MAX}
DimTypes == {"WasmInsnExec", "HostMemCpy", "VecEntry"}
DimIterations == {0, 1, 2, U64_MAX}
DimInputs == {None, Some(100), Some(U64_MAX)}

DimCharge ==
    /\ charges < MaxCharges
    /\ \E ty \in DimTypes, iterations \in DimIterations, input \in DimInputs :
          LET r == BudgetDimension_charge(cpu_insns, ty, iterations, input)
          IN /\ cpu_insns' = r.dim
             /\ ret' = Call("dim_charge", ty, iterations, input, r.res)
             /\ exceeded' = (exceeded \/ r.res = BudgetExceededLimit)
    /\ charges' = charges + 1
    /\ UNCHANGED << borrow, storage, mem_bytes, tracker, enabled, fuel_config, depth_limit,
                    free_stack, nest, balanced >>

DimReset ==
    /\ \E limit \in DimLimits :
          /\ cpu_insns' = BudgetDimension_reset(cpu_insns, limit)
          /\ ret' = Call("dim_reset", "WasmInsnExec", limit, None, Ok)
    /\ charges' = 0
    /\ exceeded' = FALSE
    /\ UNCHANGED << borrow, storage, mem_bytes, tracker, enabled, fuel_config, depth_limit,
                    free_stack, nest, balanced >>

NextDim ==
    \/ DimCharge
    \/ DimReset

SpecDim == Init /\ [][NextDim]_vars

(***************************************************************************)
(* Properties of BudgetDimension (checked under SpecDim).                  *)
(***************************************************************************)
\* The amount of the dimension charge recorded in call record c, evaluated on
\* dimension d.
AmountOf(d, c) == saturating_mul(evaluate(d.cost_models[Idx(c.ty)], c.input), c.iterations)

\* min(u64::MAX, sum of the entries of seq), formed without leaving the word.
RECURSIVE SumCapped(_)
SumCapped(seq) ==
    IF seq = << >> THEN 0
    ELSE LET rest == SumCapped(Tail(seq))
         IN IF Head(seq) > U64_MAX - rest THEN U64_MAX ELSE Head(seq) + rest

\* C1: a BudgetDimension charge returns Budget/ExceededLimit if and only if
\* total_count, after saturating-adding the amount of that call, is strictly
\* greater than limit, and returns success otherwise; so since the last reset
\* a charge has returned ExceededLimit exactly if the total is above the limit.
C1_ExceededIffTotalAboveLimit ==
    /\ [](exceeded <=> cpu_insns.total_count > cpu_insns.limit)
    /\ [][ ret'.op = "dim_charge" =>
             LET after == saturating_add(cpu_insns.total_count, AmountOf(cpu_insns, ret'))
             IN /\ cpu_insns'.total_count = after
                /\ ret'.res = IF after > cpu_insns.limit THEN BudgetExceededLimit ELSE Ok
         ]_vars

\* C1 witness: the second charge since the reset is the one that crosses a
\* non-zero limit, the first having brought the total exactly to the limit.
C1_Witness ==
    /\ ret.op = "dim_charge"
    /\ ret.res = BudgetExceededLimit
    /\ charges = 2
    /\ cpu_insns.limit > 0
    /\ cpu_insns.total_count < U64_MAX
    /\ cpu_insns.total_count - AmountOf(cpu_insns, ret) = cpu_insns.limit

\* C2: a BudgetDimension charge that returns ExceededLimit has added its full
\* amount to counts[ty] and to total_count (nothing is rolled back) and has
\* left the counts of the other cost types alone.
C2_FailedChargeKeepsAmount ==
    [][ (ret'.op = "dim_charge" /\ ret'.res = BudgetExceededLimit) =>
          LET amount == AmountOf(cpu_insns, ret')
          IN /\ cpu_insns'.total_count = saturating_add(cpu_insns.total_count, amount)
             /\ cpu_insns'.counts =
                  [cpu_insns.counts EXCEPT ![Idx(ret'.ty)] = saturating_add(@, amount)]
             /\ cpu_insns'.limit = cpu_insns.limit
      ]_vars

\* C2 witness: a failed charge of a non-zero amount on a dimension that was
\* within its limit before the call.
C2_Witness ==
    /\ ret.op = "dim_charge"
    /\ ret.res = BudgetExceededLimit
    /\ AmountOf(cpu_insns, ret) > 0
    /\ cpu_insns.total_count < U64_MAX
    /\ cpu_insns.total_count - AmountOf(cpu_insns, ret) <= cpu_insns.limit
    /\ cpu_insns.counts[Idx(ret.ty)] >= AmountOf(cpu_insns, ret)

\* C3: in every state reached by charges and resets of a BudgetDimension,
\* total_count = min(u64::MAX, sum of counts[ty] over all cost types).
C3_TotalIsCappedSumOfCounts ==
    cpu_insns.total_count = SumCapped(cpu_insns.counts)

\* C3 witness: the total has saturated while two cost types hold counts, one
\* of them not saturated.
C3_Witness ==
    /\ cpu_insns.total_count = U64_MAX
    /\ \E i, j \in DOMAIN cpu_insns.counts :
          /\ i # j
          /\ cpu_insns.counts[i] = U64_MAX
          /\ cpu_insns.counts[j] > 0
          /\ cpu_insns.counts[j] < U64_MAX

(***************************************************************************)
(* Properties of Budget::charge / bulk_charge (checked under Spec).        *)
(***************************************************************************)
\* The presence of `input` in call record c agrees with the declared kind of
\* its cost type (Some for a linear type, None for a constant one).
InputMatchesKind(c) == (c.input.some <=> c.ty \in LinearTypes)

\* The counters of a dimension: per-type counts and the total.
Counters(d) == << d.counts, d.total_count >>

\* C4: an enabled charge/bulk_charge updates the tracker, then charges the cpu
\* dimension, then the memory dimension: when the cpu charge overruns, the call
\* returns Budget/ExceededLimit with the tracker and the cpu counters updated
\* and the memory counters unchanged; memory is charged only after the cpu
\* charge succeeded.
C4_CpuOverrunLeavesMemoryUncharged ==
    [][ (enabled /\ ret'.op \in ChargeOps /\ InputMatchesKind(ret')) =>
          LET amount  == AmountOf(cpu_insns, ret')
              cpu_new == saturating_add(cpu_insns.total_count, amount)
              slot    == tracker.cost_tracker[Idx(ret'.ty)]
          IN /\ cpu_new > cpu_insns.limit =>
                  /\ ret'.res = BudgetExceededLimit
                  /\ tracker'.count = tracker.count + 1
                  /\ tracker'.cost_tracker[Idx(ret'.ty)].iters =
                        saturating_add(slot.iters, ret'.iterations)
                  /\ cpu_insns'.total_count = cpu_new
                  /\ cpu_insns'.counts[Idx(ret'.ty)] =
                        saturating_add(cpu_insns.counts[Idx(ret'.ty)], amount)
                  /\ Counters(mem_bytes') = Counters(mem_bytes)
             /\ Counters(mem_bytes') # Counters(mem_bytes) => cpu_new <= cpu_insns.limit
      ]_vars

\* C4 witness: a charge with a non-zero memory cost has failed in the cpu
\* dimension; the tracker has counted it and nothing was charged to memory.
C4_Witness ==
    /\ ret.op \in ChargeOps
    /\ ret.res = BudgetExceededLimit
    /\ cpu_insns.total_count > cpu_insns.limit
    /\ AmountOf(mem_bytes, ret) > 0
    /\ mem_bytes.total_count = 0
    /\ tracker.count = 1

\* C5: while enabled is false, every charge/bulk_charge returns success and
\* leaves both dimensions and the whole tracker unchanged, whatever the cost
\* type, the iterations and the input (matching the cost type or not).
C5_DisabledChargeIsFree ==
    [][ (~enabled /\ ret'.op \in ChargeOps) =>
          /\ ret'.res = Ok
          /\ cpu_insns' = cpu_insns
          /\ mem_bytes' = mem_bytes
          /\ tracker' = tracker
      ]_vars

\* C5 witness: inside with_free_budget, a bulk charge whose input does not
\* match its cost type, and which would overrun both limits, has returned Ok.
C5_Witness ==
    /\ ~enabled
    /\ free_stack # << >>
    /\ ret.op = "bulk_charge"
    /\ ret.res = Ok
    /\ ~InputMatchesKind(ret)
    /\ ret.iterations = U64_MAX
    /\ AmountOf(cpu_insns, ret) > cpu_insns.limit

C7_MismatchChargesNothing ==
    [][ (enabled /\ ret'.op \in ChargeOps /\ ~InputMatchesKind(ret')) =>
          /\ ret'.res = ContextInternalError
          /\ cpu_insns' = cpu_insns
          /\ mem_bytes' = mem_bytes
      ]_vars

\* C7 witness: a linear cost type was charged without input (its constant
\* term is not zero) and the call failed with InternalError.
C7_Witness ==
    /\ enabled
    /\ ret.op \in ChargeOps
    /\ ret.res = ContextInternalError
    /\ ret.ty \in LinearTypes
    /\ ~ret.input.some
    /\ AmountOf(cpu_insns, ret) > 0
    /\ AmountOf(mem_bytes, ret) > 0

\* C8 as stated: once a charge has returned ExceededLimit, no later
\* charge/bulk_charge before a reset changes the cpu or memory counters.
C8_NoChargeAfterExceeded ==
    [][ (exceeded /\ ret'.op \in ChargeOps) =>
          /\ Counters(cpu_insns') = Counters(cpu_insns)
          /\ Counters(mem_bytes') = Counters(mem_bytes)
      ]_vars

\* C8 amended: once a charge has returned ExceededLimit, the budget does not
\* refuse later charges: every later enabled charge/bulk_charge with matching
\* input (before a reset) still adds its amount to the cpu counters, adds it to
\* the memory counters exactly when the cpu dimension is within its limit
\* afterwards, and itself returns ExceededLimit.
C8_ChargesContinueAfterExceeded ==
    [][ (exceeded /\ enabled /\ ret'.op \in ChargeOps /\ InputMatchesKind(ret')) =>
          LET i       == Idx(ret'.ty)
              cpu_amt == AmountOf(cpu_insns, ret')
              mem_amt == IF is_over_budget(cpu_insns') THEN 0 ELSE AmountOf(mem_bytes, ret')
          IN /\ ret'.res = BudgetExceededLimit
             /\ cpu_insns'.total_count = saturating_add(cpu_insns.total_count, cpu_amt)
             /\ cpu_insns'.counts[i] = saturating_add(cpu_insns.counts[i], cpu_amt)
             /\ mem_bytes'.total_count = saturating_add(mem_bytes.total_count, mem_amt)
             /\ mem_bytes'.counts[i] = saturating_add(mem_bytes.counts[i], mem_amt)
      ]_vars

\* C8 witness: a charge made when the cpu dimension was already over its limit
\* has added a non-zero amount to it.
C8_Witness ==
    /\ exceeded
    /\ enabled
    /\ ret.op \in ChargeOps
    /\ ret.res = BudgetExceededLimit
    /\ AmountOf(cpu_insns, ret) > 0
    /\ cpu_insns.total_count < U64_MAX
    /\ cpu_insns.total_count - AmountOf(cpu_insns, ret) > cpu_insns.limit

(***************************************************************************)
(* Properties of the depth limiter (checked under SpecDepth).              *)
(***************************************************************************)
\* C9: from a fresh budget, as long as every leave matches an earlier
\* successful enter, depth_limit + nesting depth = DEFAULT_HOST_DEPTH_LIMIT;
\* enter succeeds whenever the nesting depth is below DEFAULT_HOST_DEPTH_LIMIT,
\* and at nesting depth DEFAULT_HOST_DEPTH_LIMIT it fails with
\* Context/ExceededLimit and leaves depth_limit at 0.
C9_BalancedDepth ==
    /\ [](balanced => depth_limit + nest = DEFAULT_HOST_DEPTH_LIMIT)
    /\ [][ (balanced /\ ret'.op = "enter") =>
             IF nest < DEFAULT_HOST_DEPTH_LIMIT
             THEN ret'.res = Ok /\ depth_limit' = depth_limit - 1
             ELSE ret'.res = ContextExceededLimit /\ depth_limit = 0 /\ depth_limit' = 0
         ]_vars

\* C9 witness: enter has failed at the full nesting depth.
C9_Witness ==
    /\ balanced
    /\ ret.op = "enter"
    /\ ret.res = ContextExceededLimit
    /\ nest = DEFAULT_HOST_DEPTH_LIMIT
    /\ depth_limit = 0

(***************************************************************************)
(* Properties of the fuel bridge (checked under Spec).                     *)
(***************************************************************************)
\* C10: in every budget state the wasmi fuel remaining is the integer quotient
\* of the remaining cpu (limit - total_count, 0 when over budget) by
\* max(1, const_term(WasmInsnExec)): fuel * cpu_per_fuel <= cpu_remaining, the
\* cpu lost to rounding is less than one cpu_per_fuel, and the fuel is 0 when
\* the cpu dimension is over budget.
C10_FuelIsFloorOfRemainingCpu ==
    LET fuel == get_wasmi_fuel_remaining(Impl)
        c    == cpu_insns.cost_models[Idx("WasmInsnExec")].const_term
        cpu_per_fuel  == IF c = 0 THEN 1 ELSE c
        cpu_remaining == IF cpu_insns.total_count > cpu_insns.limit
                         THEN 0 ELSE cpu_insns.limit - cpu_insns.total_count
    IN /\ fuel >= 0
       /\ fuel * cpu_per_fuel <= cpu_remaining
       /\ cpu_remaining - fuel * cpu_per_fuel < cpu_per_fuel
       /\ cpu_insns.total_count > cpu_insns.limit => fuel = 0

\* C10 witness: after a reset of the limits and a charge, the remaining cpu
\* is not a multiple of the cpu cost of one fuel, so the conversion rounds.
C10_Witness ==
    /\ ret.op \in ChargeOps
    /\ ret.res = Ok
    /\ cpu_insns.limit = 1149
    /\ cpu_insns.total_count > 0
    /\ cpu_insns.cost_models[Idx("WasmInsnExec")].const_term > 1
    /\ (cpu_insns.limit - cpu_insns.total_count)
          % cpu_insns.cost_models[Idx("WasmInsnExec")].const_term # 0

(***************************************************************************)
(* MeteredCostComponent::evaluate as a function of its arguments: the      *)
(* initial state holds a cost model and an input, the step evaluates.      *)
(***************************************************************************)
EvalConstTerms == {0, 1, 16, U64_MAX}
EvalLinTerms == {0, 1, 100, 128, U64_MAX}
EvalInputs == {None, Some(0), Some(1), Some(100), Some(1024), Some(U64_MAX)}

\* The fields of the budget as Budget::default() leaves them.
DefaultBudgetFields ==
    /\ cpu_insns   = BudgetImpl_default.cpu_insns
    /\ mem_bytes   = BudgetImpl_default.mem_bytes
    /\ tracker     = BudgetImpl_default.tracker
    /\ enabled     = BudgetImpl_default.enabled
    /\ fuel_config = BudgetImpl_default.fuel_config
    /\ depth_limit = BudgetImpl_default.depth_limit
    /\ free_stack = << >>
    /\ charges = 0
    /\ exceeded = FALSE
    /\ nest = 0
    /\ balanced = TRUE

\* The budget fields of a state that only holds the arguments of a function.
IdleBudget ==
    /\ DefaultBudgetFields
    /\ borrow = "free"
    /\ storage = << >>

BudgetFieldsUnchanged ==
    UNCHANGED << cpu_insns, mem_bytes, tracker, enabled, fuel_config, depth_limit,
                 free_stack, charges, exceeded, nest, balanced >>

BudgetUnchanged ==
    /\ BudgetFieldsUnchanged
    /\ UNCHANGED << borrow, storage >>

InitEval ==
    /\ IdleBudget
    /\ \E c \in EvalConstTerms, l \in EvalLinTerms, input \in EvalInputs :
          ret = [ op |-> "evaluate", cm |-> MeteredCostComponent(c, l),
                  input |-> input, done |-> FALSE, res |-> 0 ]

Evaluate ==
    /\ ret.op = "evaluate"
    /\ ~ret.done
    /\ ret' = [ret EXCEPT !.done = TRUE, !.res = evaluate(ret.cm, ret.input)]
    /\ BudgetUnchanged

NextEval == Evaluate

SpecEval == InitEval /\ [][NextEval]_vars

\* C11: evaluate(None) = const_term; with lin_term = 0, evaluate(Some(x)) =
\* const_term; otherwise evaluate(Some(x)) is const_term saturating-plus
\* ((lin_term saturating-times x) shifted right by 7 bits), both operations
\* stopping at the word maximum.
C11_EvaluateIsSaturatingLinear ==
    (ret.op = "evaluate" /\ ret.done) =>
        LET c == ret.cm.const_term
            l == ret.cm.lin_term
            x == ret.input.v
            product == IF x > 0 /\ l > U64_MAX \div x THEN U64_MAX ELSE l * x
            shifted == product \div 128
        IN /\ ret.res \in 0..U64_MAX
           /\ ~ret.input.some => ret.res = c
           /\ (ret.input.some /\ l = 0) => ret.res = c
           /\ (ret.input.some /\ l # 0) =>
                 ret.res = IF c > U64_MAX - shifted THEN U64_MAX ELSE c + shifted

\* C11 witness: a linear model evaluated on an input for which the product
\* saturates while the sum does not.
C11_Witness ==
    /\ ret.op = "evaluate"
    /\ ret.done
    /\ ret.input.some
    /\ ret.cm.lin_term = 128
    /\ ret.input.v = U64_MAX
    /\ ret.cm.const_term = 16
    /\ ret.res = 16 + U64_MAX \div 128

(***************************************************************************)
(* The first bulk charge made on Budget::default().                        *)
(***************************************************************************)
ScenarioIterations == {k * 10000 : k \in 0..30}
ScenarioInputs == {None, Some(64), Some(1024), Some(4096)}

InitDefault ==
    /\ IdleBudget
    /\ ret = Call("new", "WasmInsnExec", 0, None, Ok)

FirstBulkCharge ==
    /\ ret.op = "new"
    /\ \E iterations \in ScenarioIterations, input \in ScenarioInputs :
          DoCharge("bulk_charge", "HostMemAlloc", iterations, input)

NextDefault == FirstBulkCharge

SpecDefault == InitDefault /\ [][NextDefault]_vars

\* The call bulk_charge(HostMemAlloc, 200_000, Some(1024)) has just returned.
ScenarioS2 ==
    ret = Call("bulk_charge", "HostMemAlloc", 200000, Some(1024), ret.res)

\* C12 as stated: on Budget::default(), bulk_charge(HostMemAlloc, 200_000,
\* Some(1024)) returns ExceededLimit and the memory total becomes
\* 200_000 * (16 + ((128 * 1024) >> 7)) = 208_000_000 > 104_857_600.
C12_MemoryTotalBecomes208M ==
    ScenarioS2 =>
        /\ ret.res = BudgetExceededLimit
        /\ mem_bytes.total_count = 200000 * (16 + ((128 * 1024) \div 128))
        /\ mem_bytes.total_count = 208000000
        /\ mem_bytes.total_count > DEFAULT_MEM_BYTES_LIMIT

\* C12 amended: on Budget::default(), bulk_charge(HostMemAlloc, 200_000,
\* Some(1024)) returns ExceededLimit from the cpu dimension: the cpu total
\* becomes 200_000 * (1141 + ((1 * 1024) >> 7)) = 229_800_000 > 100_000_000,
\* and the memory dimension is not charged, its total staying 0.
C12_CpuOverrunsFirst ==
    ScenarioS2 =>
        /\ ret.res = BudgetExceededLimit
        /\ cpu_insns.total_count = 200000 * (1141 + ((1 * 1024) \div 128))
        /\ cpu_insns.total_count = 229800000
        /\ cpu_insns.total_count > DEFAULT_CPU_INSN_LIMIT
        /\ cpu_insns.limit = DEFAULT_CPU_INSN_LIMIT
        /\ mem_bytes.total_count = 0
        /\ mem_bytes.counts[Idx("HostMemAlloc")] = 0

\* C12 witness: the scenario's call has returned ExceededLimit.
C12_Witness ==
    /\ ScenarioS2
    /\ ret.res = BudgetExceededLimit
    /\ tracker.cost_tracker[Idx("HostMemAlloc")].iters = 200000

(***************************************************************************)
(* impl ResourceLimiter for Host: the callbacks the wasm engine makes when *)
(* a linear memory or a table is about to grow.                            *)
(***************************************************************************)
WASMI_LIMITS_CONFIG ==
    [ table_elements |-> 1000, instances |-> 1, tables |-> 1, memories |-> 1 ]

OutOfBoundsGrowth == "MemoryError::OutOfBoundsGrowth"
GrowOutOfBounds == "TableError::GrowOutOfBounds"

OkBool(v) == [ok |-> TRUE, v |-> v]
ErrOf(e) == [ok |-> FALSE, err |-> e]

\* Variant of memory_growing: the declared maximum is not consulted.
memory_growing_without_maximum(b, current, desired, maximum) ==
    LET host_limit == get_remaining(b.mem_bytes)
        allow == ~(desired > host_limit)
    IN IF allow
       THEN LET delta == saturating_sub(desired, current)
                r == BudgetImpl_charge(b, "WasmMemAlloc", delta, None)
            IN [ b |-> r.b,
                 res |-> IF r.res = Ok THEN OkBool(TRUE) ELSE ErrOf(OutOfBoundsGrowth) ]
       ELSE [b |-> b, res |-> ErrOf(OutOfBoundsGrowth)]

\* ResourceLimiter::memory_growing: the budget after the call and the value
\* returned (the budget is not borrowed while the engine runs the callback).
memory_growing(b, current, desired, maximum) ==
    LET host_limit == get_remaining(b.mem_bytes)
        allow == IF desired > host_limit
                 THEN FALSE
                 ELSE IF maximum.some THEN desired <= maximum.v ELSE TRUE
    IN IF allow
       THEN LET delta == saturating_sub(desired, current)
                r == BudgetImpl_charge(b, "WasmMemAlloc", delta, None)
            IN [ b |-> r.b,
                 res |-> IF r.res = Ok THEN OkBool(TRUE) ELSE ErrOf(OutOfBoundsGrowth) ]
       ELSE [b |-> b, res |-> ErrOf(OutOfBoundsGrowth)]

\* The error value of a refused table growth.
TableGrowError(current, desired, maximum) ==
    ErrOf(GrowOutOfBounds) @@
    [ maximum |-> IF maximum.some THEN maximum.v ELSE U32_MAX,
      current |-> current,
      delta   |-> desired - current ]

\* Variant of table_growing: a table of exactly table_elements is refused.
table_growing_below_limit(current, desired, maximum) ==
    LET allow == IF desired >= WASMI_LIMITS_CONFIG.table_elements
                 THEN FALSE
                 ELSE IF maximum.some THEN desired <= maximum.v ELSE TRUE
    IN IF allow THEN OkBool(allow) ELSE TableGrowError(current, desired, maximum)

\* ResourceLimiter::table_growing: the value returned; no field is written.
table_growing(current, desired, maximum) ==
    LET allow == IF desired > WASMI_LIMITS_CONFIG.table_elements
                 THEN FALSE
                 ELSE IF maximum.some THEN desired <= maximum.v ELSE TRUE
    IN IF allow THEN OkBool(allow) ELSE TableGrowError(current, desired, maximum)

\* Sizes in bytes; a current size above the desired one exercises the
\* saturating subtraction.
MemCurrent == {0, 2000}
MemDesired == {16, 1040, 65536, 200000000}
MemMaximum == {None, Some(1040)}

\* Sizes in elements.  The engine computes desired as current plus the
\* requested delta, so desired >= current in every call.
TableCurrent == {0, 10}
TableDesired == {10, 1000, 1001}
TableMaximum == {None, Some(999)}

GrowCall(op, current, desired, maximum, res) ==
    [op |-> op, current |-> current, desired |-> desired, maximum |-> maximum, res |-> res]

MemoryGrowing ==
    /\ enabled => charges < MaxCharges
    /\ \E current \in MemCurrent, desired \in MemDesired, maximum \in MemMaximum :
          LET r == memory_growing(Impl, current, desired, maximum)
          IN /\ SetImpl(r.b)
             /\ ret' = GrowCall("memory_growing", current, desired, maximum, r.res)
             /\ charges' = IF r.b # Impl THEN charges + 1 ELSE charges
             /\ exceeded' = (exceeded \/ (r.b # Impl /\ ~r.res.ok))
    /\ UNCHANGED << borrow, storage, free_stack, nest, balanced >>

TableGrowing ==
    /\ \E current \in TableCurrent, desired \in TableDesired, maximum \in TableMaximum :
          /\ desired >= current
          /\ ret' = GrowCall("table_growing", current, desired, maximum,
                             table_growing(current, desired, maximum))
    /\ BudgetUnchanged

NextGrow ==
    \/ MemoryGrowing
    \/ TableGrowing
    \/ Charge
    \/ WithFreeBudgetBegin
    \/ WithFreeBudgetEnd

SpecGrow == Init /\ [][NextGrow]_vars

C13_ChargeFailureReached ==
    /\ ret.op = "memory_growing"
    /\ ~ret.res.ok
    /\ exceeded
    /\ tracker.cost_tracker[Idx("WasmMemAlloc")].iters > 0

MAX_SMALL_CHARS == 9
CODE_BITS == 6
CODE_MASK == 2^CODE_BITS - 1
BODY_BITS == CODE_BITS * MAX_SMALL_CHARS + 2
SCSYMBOL_LIMIT == 32

WordDigits == (64 + CODE_BITS - 1) \div CODE_BITS

\* The number of bits of a u64 that lie in digit k.
DigitWidth(k) == IF k * CODE_BITS <= 64 THEN CODE_BITS ELSE 64 - (k - 1) * CODE_BITS

ZeroWord == [k \in 1..WordDigits |-> 0]

\* w << CODE_BITS on a u64: the bits shifted past bit 63 are lost.
Shl(w) ==
    [k \in 1..WordDigits |-> IF k = 1 THEN 0 ELSE w[k - 1] % 2^DigitWidth(k)]

RECURSIVE BitOr(_, _)
BitOr(a, b) ==
    IF a = 0 THEN b
    ELSE IF b = 0 THEN a
    ELSE (IF a % 2 = 1 \/ b % 2 = 1 THEN 1 ELSE 0) + 2 * BitOr(a \div 2, b \div 2)

\* w | v for a value v below 2^CODE_BITS.
WordOr(w, v) == [w EXCEPT ![1] = BitOr(@, v)]

\* (w >> (k * CODE_BITS)) & CODE_MASK
CodeAt(w, k) == w[k + 1] % (CODE_MASK + 1)

OkOf(v) == [ok |-> TRUE, v |-> v]
TooLong(n) == [ok |-> FALSE, err |-> "TooLong", arg |-> n]
BadChar(ch) == [ok |-> FALSE, err |-> "BadChar", arg |-> ch]

\* SymbolSmall::from_body keeps the BODY_BITS low bits of the word as the body
\* of a value tagged SymbolSmall; get_body returns them.
from_body(body) ==
    [ tag  |-> "SymbolSmall",
      body |-> [k \in 1..WordDigits |->
                  LET lo == (k - 1) * CODE_BITS
                  IN IF lo >= BODY_BITS THEN 0
                     ELSE IF lo + CODE_BITS <= BODY_BITS THEN body[k]
                     ELSE body[k] % 2^(BODY_BITS - lo)] ]

get_body(sym) == sym.body

\* Variant of encode_char: the codes are numbered from 0.
encode_char_from_zero(ch) ==
    IF ch = 95 THEN OkOf(0)
    ELSE IF ch \in 48..57 THEN OkOf(1 + (ch - 48))
    ELSE IF ch \in 65..90 THEN OkOf(11 + (ch - 65))
    ELSE IF ch \in 97..122 THEN OkOf(37 + (ch - 97))
    ELSE BadChar(ch)

\* Variant of encode_char: an inadmissible ASCII character is taken as '_',
\* only a character above the ASCII range is refused.
encode_char_lenient(ch) ==
    IF ch \in 48..57 THEN OkOf(2 + (ch - 48))
    ELSE IF ch \in 65..90 THEN OkOf(12 + (ch - 65))
    ELSE IF ch \in 97..122 THEN OkOf(38 + (ch - 97))
    ELSE IF ch < 128 THEN OkOf(1)
    ELSE BadChar(ch)

\* '_' = 95, '0'..'9' = 48..57, 'A'..'Z' = 65..90, 'a'..'z' = 97..122.
encode_char(ch) ==
    IF ch = 95 THEN OkOf(1)
    ELSE IF ch \in 48..57 THEN OkOf(2 + (ch - 48))
    ELSE IF ch \in 65..90 THEN OkOf(12 + (ch - 65))
    ELSE IF ch \in 97..122 THEN OkOf(38 + (ch - 97))
    ELSE BadChar(ch)

\* The loop of try_from_bytes, entered with n bytes read and accum built.
RECURSIVE try_from_bytes_loop(_, _, _)
try_from_bytes_loop(b, n, accum) ==
    IF n < Len(b)
    THEN LET ch == b[n + 1]
         IN IF n >= MAX_SMALL_CHARS
            THEN TooLong(Len(b))
            ELSE LET shifted == Shl(accum)
                     e == encode_char(ch)
                 IN IF e.ok
                    THEN try_from_bytes_loop(b, n + 1, WordOr(shifted, e.v))
                    ELSE e
    ELSE OkOf(from_body(accum))

\* Variant of try_from_bytes: the codes are packed from the top of the body,
\* the padding of a short string being in the low-order bits.
RECURSIVE ShlTimes(_, _)
ShlTimes(w, n) == IF n = 0 THEN w ELSE ShlTimes(Shl(w), n - 1)

try_from_bytes_left_aligned(b) ==
    LET r == try_from_bytes_loop(b, 0, ZeroWord)
    IN IF r.ok
       THEN OkOf(from_body(ShlTimes(get_body(r.v), MAX_SMALL_CHARS - Len(b))))
       ELSE r

\* Variant of try_from_bytes: the length is tested before any byte is read.
try_from_bytes_length_first(b) ==
    IF Len(b) > MAX_SMALL_CHARS
    THEN TooLong(Len(b))
    ELSE try_from_bytes_loop(b, 0, ZeroWord)

\* Variant of try_from_bytes: the bytes are packed last to first, the first
\* character ending in the lowest bits.
try_from_bytes_first_char_lowest(b) ==
    try_from_bytes_loop([i \in 1..Len(b) |-> b[Len(b) + 1 - i]], 0, ZeroWord)

try_from_bytes(b) == try_from_bytes_loop(b, 0, ZeroWord)

\* s.as_bytes(): a str is its bytes.
try_from_str(s) == try_from_bytes(s)

\* impl IntoIterator for SymbolSmall
into_iter(sym) == get_body(sym)

\* The match of SymbolSmallIter::next: the byte of a code, 0 for code 0.
decode_code(n) ==
    IF n = 1 THEN 95
    ELSE IF n \in 2..11 THEN 48 + n - 2
    ELSE IF n \in 12..37 THEN 65 + n - 12
    ELSE IF n \in 38..63 THEN 97 + n - 38
    ELSE 0

\* The while loop of SymbolSmallIter::next: the iterator after the call and
\* the item returned.
RECURSIVE SymbolSmallIter_loop(_)
SymbolSmallIter_loop(it) ==
    IF it # ZeroWord
    THEN LET res == decode_code(CodeAt(it, MAX_SMALL_CHARS - 1))
             it1 == Shl(it)
         IN IF res # 0
            THEN [it |-> it1, item |-> Some(res)]
            ELSE SymbolSmallIter_loop(it1)
    ELSE [it |-> it, item |-> None]

\* Variant of next: a zero code ends the iteration.
SymbolSmallIter_next_ends_at_zero(it) ==
    LET res == decode_code(CodeAt(it, MAX_SMALL_CHARS - 1))
    IN IF res # 0 THEN [it |-> Shl(it), item |-> Some(res)]
       ELSE [it |-> ZeroWord, item |-> None]

SymbolSmallIter_next(it) == SymbolSmallIter_loop(it)

\* The for loop of to_str, with i characters written.
RECURSIVE to_str_fill(_, _, _)
to_str_fill(it, i, chars) ==
    LET n == SymbolSmallIter_next(it)
    IN IF n.item.some
       THEN to_str_fill(n.it, i + 1, [chars EXCEPT ![i + 1] = n.item.v])
       ELSE chars

to_str(sym) == to_str_fill(into_iter(sym), 0, [i \in 1..SCSYMBOL_LIMIT |-> 0])

SymbolStr_len(s) ==
    IF \E i \in 1..Len(s) : s[i] = 0
    THEN CHOOSE i \in 0..(Len(s) - 1) : s[i + 1] = 0 /\ \A j \in 1..i : s[j] # 0
    ELSE Len(s)

\* impl AsRef<[u8]> for SymbolStr
SymbolStr_as_ref(s) == SubSeq(s, 1, SymbolStr_len(s))

\* Iterator::cmp: the lexicographic comparison of the items of two iterators.
RECURSIVE Iterator_cmp(_, _)
Iterator_cmp(x, y) ==
    LET nx == SymbolSmallIter_next(x)
        ny == SymbolSmallIter_next(y)
    IN IF ~nx.item.some
       THEN (IF ~ny.item.some THEN "Equal" ELSE "Less")
       ELSE IF ~ny.item.some THEN "Greater"
       ELSE IF nx.item.v < ny.item.v THEN "Less"
       ELSE IF nx.item.v > ny.item.v THEN "Greater"
       ELSE Iterator_cmp(nx.it, ny.it)

\* Variant of cmp: the bodies are compared as numbers.
cmp_by_body(a, b) ==
    LET x == get_body(a)
        y == get_body(b)
    IN IF x = y THEN "Equal"
       ELSE LET k == CHOOSE k \in 1..WordDigits :
                        x[k] # y[k] /\ \A j \in (k + 1)..WordDigits : x[j] = y[j]
            IN IF x[k] < y[k] THEN "Less" ELSE "Greater"

\* impl Ord for SymbolSmall
cmp(a, b) == Iterator_cmp(into_iter(a), into_iter(b))

(***************************************************************************)
(* Strings explored: every string of at most MaxSymLen bytes over          *)
(* SymAlphabet ('_', '0', '9', 'A', 'Z', 'a', 'z' and the inadmissible     *)
(* '-'), and the strings below, among them those of the tests of           *)
(* symbol.rs.                                                              *)
(***************************************************************************)
MaxSymLen == 2
SymAlphabet == {95, 48, 57, 65, 90, 97, 122, 45}

\* "stellar"
Str_stellar == <<115, 116, 101, 108, 108, 97, 114>>
\* "123456789"
Str_123456789 == <<49, 50, 51, 52, 53, 54, 55, 56, 57>>
\* "____5678"
Str_____5678 == <<95, 95, 95, 95, 53, 54, 55, 56>>
\* "____56789"
Str_____56789 == <<95, 95, 95, 95, 53, 54, 55, 56, 57>>
\* "abc"
Str_abc == <<97, 98, 99>>
\* "ABC"
Str_ABC == <<65, 66, 67>>
\* "ab"
Str_ab == <<97, 98>>
\* "b"
Str_b == <<98>>
\* "zzzzzzzzz"
Str_zzzzzzzzz == <<122, 122, 122, 122, 122, 122, 122, 122, 122>>
\* "hello_world"
Str_hello_world == <<104, 101, 108, 108, 111, 95, 119, 111, 114, 108, 100>>
\* "abcdefghij"
Str_abcdefghij == <<97, 98, 99, 100, 101, 102, 103, 104, 105, 106>>
\* "abc-efghij"
Str_abc_dash_efghij == <<97, 98, 99, 45, 101, 102, 103, 104, 105, 106>>
\* "abcdefghi-"
Str_abcdefghi_dash == <<97, 98, 99, 100, 101, 102, 103, 104, 105, 45>>
\* "abcdefgh-"
Str_abcdefgh_dash == <<97, 98, 99, 100, 101, 102, 103, 104, 45>>
\* "a", the non-ASCII byte 0xC8, "-"
Str_a_xC8_dash == <<97, 200, 45>>

LongStrings ==
    { Str_a_xC8_dash,
      Str_stellar,
      Str_123456789,
      Str_____5678,
      Str_____56789,
      Str_abc,
      Str_ABC,
      Str_ab,
      Str_b,
      Str_zzzzzzzzz,
      Str_hello_world,
      Str_abcdefghij,
      Str_abc_dash_efghij,
      Str_abcdefghi_dash,
      Str_abcdefgh_dash }

SymStrings == UNION { [1..n -> SymAlphabet] : n \in 0..MaxSymLen } \cup LongStrings

\* The second operand of a comparison: "", "_", "0", "A", "a", "ab", "abc", "b".
OrdStrings == { << >>, <<95>>, <<48>>, <<65>>, <<97>>, Str_ab, Str_abc, Str_b }

InitSymbol ==
    /\ IdleBudget
    /\ \E a \in SymStrings, b \in OrdStrings : ret = [op |-> "input", a |-> a, b |-> b]

\* SymbolSmall::try_from_str on each of the two strings.
TryFromStr ==
    /\ ret.op = "input"
    /\ ret' = [ op |-> "try_from_str", a |-> ret.a, b |-> ret.b,
                ra |-> try_from_str(ret.a), rb |-> try_from_str(ret.b) ]
    /\ BudgetUnchanged

\* SymbolSmall::to_str on the first symbol, then SymbolStr::len and as_ref.
ToStr ==
    /\ ret.op = "try_from_str"
    /\ ret.ra.ok
    /\ LET str == to_str(ret.ra.v)
       IN ret' = [ op |-> "to_str", a |-> ret.a, b |-> ret.b, sym |-> ret.ra.v,
                   str |-> str, len |-> SymbolStr_len(str),
                   bytes |-> SymbolStr_as_ref(str) ]
    /\ BudgetUnchanged

\* Ord::cmp of the two symbols.
Cmp ==
    /\ ret.op = "try_from_str"
    /\ ret.ra.ok
    /\ ret.rb.ok
    /\ ret' = [ op |-> "cmp", a |-> ret.a, b |-> ret.b, ra |-> ret.ra, rb |-> ret.rb,
                ord |-> cmp(ret.ra.v, ret.rb.v) ]
    /\ BudgetUnchanged

NextSymbol ==
    \/ TryFromStr
    \/ ToStr
    \/ Cmp

SpecSymbol == InitSymbol /\ [][NextSymbol]_vars

(***************************************************************************)
(* Properties of SymbolSmall.                                              *)
(***************************************************************************)
Repertoire == {95} \cup (48..57) \cup (65..90) \cup (97..122)

\* The strings a SymbolSmall can hold.
Admissible(s) == Len(s) <= 9 /\ \A i \in 1..Len(s) : s[i] \in Repertoire

\* The repertoire in the order of its codes: '_', '0'..'9', 'A'..'Z', 'a'..'z'.
RepertoireByCode ==
    << 95 >> \o [i \in 1..10 |-> 47 + i] \o [i \in 1..26 |-> 64 + i]
             \o [i \in 1..26 |-> 96 + i]

CodeOf(ch) == CHOOSE c \in 1..63 : RepertoireByCode[c] = ch

\* The number held by the five lowest codes of a word whose other bits are 0.
RECURSIVE LowValue(_, _)
LowValue(w, k) == IF k > 5 THEN 0 ELSE w[k] + 64 * LowValue(w, k + 1)

WordValue(w) == LowValue(w, 1)

HighBitsZero(w) == \A k \in 6..WordDigits : w[k] = 0

\* The sum over i >= from of code(c_i) * 64^(n - i), for a string of n <= 5
\* characters.
RECURSIVE SumOfCodes(_, _)
SumOfCodes(s, from) ==
    IF from > Len(s) THEN 0
    ELSE CodeOf(s[from]) * 64^(Len(s) - from) + SumOfCodes(s, from + 1)

\* a < b, a = b or a > b in the byte-wise lexicographic order of strings.
LexLess(a, b) ==
    \E k \in 0..Len(a) :
        /\ k <= Len(b)
        /\ \A i \in 1..k : a[i] = b[i]
        /\ IF k = Len(a) THEN k < Len(b) ELSE k < Len(b) /\ a[k + 1] < b[k + 1]

\* C15: for every string s of 0 to 9 characters of [a-zA-Z0-9_],
\* try_from_str(s) succeeds, and to_str of the symbol gives a SymbolStr whose
\* bytes are exactly s and whose len() is the length of s.
C15_RoundTrip ==
    Admissible(ret.a) =>
        /\ ret.op = "try_from_str" => ret.ra.ok
        /\ ret.op = "to_str" =>
              /\ ret.len = Len(ret.a)
              /\ ret.bytes = ret.a
              /\ \A i \in 1..SCSYMBOL_LIMIT :
                    ret.str[i] = IF i <= Len(ret.a) THEN ret.a[i] ELSE 0

\* C15 witness: a string of 9 characters came back from to_str.
C15_Witness ==
    /\ ret.op = "to_str"
    /\ ret.a = Str_123456789
    /\ ret.bytes = Str_123456789
    /\ ret.len = 9

\* The empty string came back from to_str.
C15_EmptyReached ==
    /\ ret.op = "to_str"
    /\ ret.a = << >>
    /\ ret.len = 0

C17_BodyIsBase64Number ==
    (ret.op = "try_from_str" /\ Admissible(ret.a)) =>
        LET n == Len(ret.a)
            body == ret.ra.v.body
        IN /\ \A k \in 1..WordDigits :
                 body[k] = IF k <= n THEN CodeOf(ret.a[n + 1 - k]) ELSE 0
           /\ n <= 5 => WordValue(body) = SumOfCodes(ret.a, 1)
           /\ ret.a = << >> => WordValue(body) = 0
           /\ ret.a = << 97 >> => WordValue(body) = 38
           /\ ret.a = Str_ab => WordValue(body) = 2471

\* C17 witness: the body of "ab" is 0x9a7 = 2471.
C17_Witness ==
    /\ ret.op = "try_from_str"
    /\ ret.a = Str_ab
    /\ ret.ra.ok
    /\ WordValue(ret.ra.v.body) = 2471
    /\ HighBitsZero(ret.ra.v.body)

\* C18 as stated: the body is left-aligned in its 54 bits, the first
\* character's code in bits 48..53 and the padding of a string shorter than 9
\* characters in the low-order bits.
C18_BodyIsLeftAligned ==
    (ret.op = "try_from_str" /\ Admissible(ret.a)) =>
        LET n == Len(ret.a)
            body == ret.ra.v.body
        IN /\ \A i \in 1..n : body[MAX_SMALL_CHARS + 1 - i] = CodeOf(ret.a[i])
           /\ \A k \in 1..(MAX_SMALL_CHARS - n) : body[k] = 0

\* C18 amended: the body is right-aligned in its 54 bits: the last character's
\* code is in bits 0..5, the first character's code in bits 6(n-1)..6n-1, and
\* the padding of a string shorter than 9 characters is in the high-order
\* bits; bits 48..53 hold a code only for a string of 9 characters.
C18_BodyIsRightAligned ==
    (ret.op = "try_from_str" /\ Admissible(ret.a)) =>
        LET n == Len(ret.a)
            body == ret.ra.v.body
        IN /\ n >= 1 => /\ CodeAt(body, 0) = CodeOf(ret.a[n])
                        /\ CodeAt(body, n - 1) = CodeOf(ret.a[1])
           /\ \A k \in n..(WordDigits - 1) : CodeAt(body, k) = 0
           /\ CodeAt(body, MAX_SMALL_CHARS - 1) # 0 <=> n = MAX_SMALL_CHARS

\* C18 witness: "stellar" has its last character in bits 0..5, its first in
\* bits 36..41 and nothing in bits 48..53.
C18_Witness ==
    /\ ret.op = "try_from_str"
    /\ ret.a = Str_stellar
    /\ ret.ra.ok
    /\ CodeAt(ret.ra.v.body, 0) = CodeOf(114)
    /\ CodeAt(ret.ra.v.body, 6) = CodeOf(115)
    /\ CodeAt(ret.ra.v.body, 8) = 0

\* C19 as stated: the body of "abc" is 0x269a7a8 = 40478632 and the body of
\* "ABC" is 0x30d0e = 199950.
C19_VectorsAsStated ==
    ret.op = "try_from_str" =>
        /\ ret.a = Str_abc =>
              HighBitsZero(ret.ra.v.body) /\ WordValue(ret.ra.v.body) = 40478632
        /\ ret.a = Str_ABC =>
              HighBitsZero(ret.ra.v.body) /\ WordValue(ret.ra.v.body) = 199950

\* C19 amended: the body of "abc" is 0x269e8 = 158184 (codes 38, 39, 40) and
\* the body of "ABC" is 0xc34e = 49998 (codes 12, 13, 14).
C19_VectorsOfTheCode ==
    ret.op = "try_from_str" =>
        /\ ret.a = Str_abc =>
              HighBitsZero(ret.ra.v.body) /\ WordValue(ret.ra.v.body) = 158184
        /\ ret.a = Str_ABC =>
              HighBitsZero(ret.ra.v.body) /\ WordValue(ret.ra.v.body) = 49998

\* C19 witness: the symbol of "abc" has been formed, with codes 38, 39, 40.
C19_Witness ==
    /\ ret.op = "try_from_str"
    /\ ret.a = Str_abc
    /\ ret.ra.ok
    /\ WordValue(ret.ra.v.body) = 38 * 4096 + 39 * 64 + 40

\* C20 as stated: try_from_bytes(b) fails with TooLong(len(b)) for every b of
\* more than 9 bytes, whatever its contents.
C20_TooLongWhateverTheContents ==
    (ret.op = "try_from_str" /\ Len(ret.a) > 9) => ret.ra = TooLong(Len(ret.a))

\* C20 amended: for b of more than 9 bytes, try_from_bytes(b) fails with
\* TooLong(len(b)) when the first 9 bytes are all of [a-zA-Z0-9_], and with
\* BadChar of the first byte outside that set among the first 9 otherwise.
C20_TooLongAfterNineAdmissibleBytes ==
    (ret.op = "try_from_str" /\ Len(ret.a) > 9) =>
        LET bad == {i \in 1..9 : ret.a[i] \notin Repertoire}
        IN IF bad = {}
           THEN ret.ra = TooLong(Len(ret.a))
           ELSE \E i \in bad : /\ \A j \in bad : i <= j
                               /\ ret.ra = BadChar(ret.a[i])

\* C20 witness: a string of 10 bytes whose only inadmissible byte is the last
\* failed with TooLong(10).
C20_Witness ==
    /\ ret.op = "try_from_str"
    /\ ret.a = Str_abcdefghi_dash
    /\ ret.ra = TooLong(10)

\* C21: try_from_bytes on at most 9 bytes of which at least one, possibly a
\* non-ASCII byte, is outside [a-zA-Z0-9_] fails with BadChar of the first such
\* byte and yields no symbol.
C21_BadCharIsFirstInadmissibleByte ==
    (ret.op = "try_from_str" /\ Len(ret.a) <= 9 /\ ~Admissible(ret.a)) =>
        LET bad == {i \in 1..Len(ret.a) : ret.a[i] \notin Repertoire}
            first == CHOOSE i \in bad : \A j \in bad : i <= j
        IN /\ ~ret.ra.ok
           /\ ret.ra = BadChar(ret.a[first])

\* C21 witness: in "a", 0xC8, "-" the non-ASCII byte is reported, not the '-'
\* after it.
C21_Witness ==
    /\ ret.op = "try_from_str"
    /\ ret.a = Str_a_xC8_dash
    /\ ret.ra = BadChar(200)

(***************************************************************************)
(* Symbol: a SymbolSmall or a SymbolObject, a handle into the object table *)
(* of the environment.  The environment is a collaborator: what it answers *)
(* when asked is part of the input of a call, and the calls made to it are *)
(* recorded.                                                               *)
(***************************************************************************)
\* The tags of the two variants, SymbolSmall below SymbolObject.
Tag == [SymbolSmall |-> 14, SymbolObject |-> 74]

SymbolObject(handle) == [tag |-> "SymbolObject", handle |-> handle]

get_tag(val) == Tag[val.tag]

EnvError == "Env::Error"

\* Variant of the conversion: only a string that is too long is handed to the
\* environment, an inadmissible character is an error.
Symbol_try_from_val_long_only(env_res, v) ==
    LET ss == try_from_str(v)
    IN IF ss.ok THEN [res |-> OkOf(ss.v), env_calls |-> << >>]
       ELSE IF ss.err = "BadChar" THEN [res |-> ErrOf(EnvError), env_calls |-> << >>]
       ELSE [ res |-> env_res,
              env_calls |-> << [fn |-> "symbol_new_from_slice", v |-> v] >> ]

\* impl TryFromVal<E, &str> for Symbol; env_res is what
\* env.symbol_new_from_slice(v) answers when it is called.
Symbol_try_from_val(env_res, v) ==
    LET ss == try_from_str(v)
    IN IF ss.ok
       THEN [res |-> OkOf(ss.v), env_calls |-> << >>]
       ELSE [ res |-> IF env_res.ok THEN OkOf(env_res.v) ELSE ErrOf(env_res.err),
              env_calls |-> << [fn |-> "symbol_new_from_slice", v |-> v] >> ]

Ordering_cmp(x, y) == IF x < y THEN "Less" ELSE IF x > y THEN "Greater" ELSE "Equal"

\* Variant of compare: every comparison that involves an object symbol is
\* handed to the environment.
compare_objects_by_env(env_res, a, b) ==
    IF a.tag = "SymbolSmall" /\ b.tag = "SymbolSmall"
    THEN [res |-> OkOf(cmp(a, b)), env_calls |-> << >>]
    ELSE [res |-> env_res, env_calls |-> << [fn |-> "compare", a |-> a, b |-> b] >>]

\* impl Compare<Symbol> for E; env_res is what the comparison of two symbol
\* objects by the environment answers when it is called.
compare(env_res, a, b) ==
    LET taga == get_tag(a)
        tagb == get_tag(b)
        tags == Ordering_cmp(taga, tagb)
    IN IF tags = "Equal"
       THEN IF taga = Tag.SymbolSmall
            THEN [res |-> OkOf(cmp(a, b)), env_calls |-> << >>]
            ELSE [res |-> env_res, env_calls |-> << [fn |-> "compare", a |-> a, b |-> b] >>]
       ELSE [res |-> OkOf(tags), env_calls |-> << >>]

\* Answers of the environment: handles of new objects, or an error.
EnvNewResults == {OkOf(SymbolObject(1)), OkOf(SymbolObject(2)), ErrOf(EnvError)}

\* Answers of the environment's comparison of objects.
EnvCmpResults == {OkOf("Less"), OkOf("Equal"), OkOf("Greater"), ErrOf(EnvError)}

\* Operands of a comparison: the small symbol of a string, or an object.
SymbolOperands ==
    {[small |-> TRUE, s |-> s, val |-> try_from_str(s).v] : s \in OrdStrings} \cup
    {[small |-> FALSE, s |-> << >>, val |-> SymbolObject(h)] : h \in {1, 2}}

InitSymbolEnv ==
    /\ IdleBudget
    /\ \/ \E v \in SymStrings, env_res \in EnvNewResults :
             ret = [op |-> "input_str", v |-> v, env_res |-> env_res]
       \/ \E a \in SymbolOperands, b \in SymbolOperands, env_res \in EnvCmpResults :
             ret = [op |-> "input_pair", a |-> a, b |-> b, env_res |-> env_res]

SymbolTryFromVal ==
    /\ ret.op = "input_str"
    /\ LET r == Symbol_try_from_val(ret.env_res, ret.v)
       IN ret' = [ op |-> "Symbol::try_from_val", v |-> ret.v, env_res |-> ret.env_res,
                   res |-> r.res, env_calls |-> r.env_calls ]
    /\ BudgetUnchanged

SymbolCompare ==
    /\ ret.op = "input_pair"
    /\ LET r == compare(ret.env_res, ret.a.val, ret.b.val)
       IN ret' = [ op |-> "compare", a |-> ret.a, b |-> ret.b, env_res |-> ret.env_res,
                   res |-> r.res, env_calls |-> r.env_calls ]
    /\ BudgetUnchanged

NextSymbolEnv ==
    \/ SymbolTryFromVal
    \/ SymbolCompare

SpecSymbolEnv == InitSymbolEnv /\ [][NextSymbolEnv]_vars

\* C22: the conversion of a string to Symbol gives the small form, the
\* environment not being asked, exactly when the string has at most 9
\* characters, all of [a-zA-Z0-9_]; any other string, such as "hello_world",
\* is handed to env.symbol_new_from_slice and the result is the object, or the
\* error, the environment answers.
C22_SmallFormIffAdmissible ==
    ret.op = "Symbol::try_from_val" =>
        /\ Admissible(ret.v) <=> (ret.res.ok /\ ret.res.v.tag = "SymbolSmall")
        /\ Admissible(ret.v) <=> ret.env_calls = << >>
        /\ Admissible(ret.v) =>
              \A k \in 1..WordDigits :
                 ret.res.v.body[k] =
                    IF k <= Len(ret.v) THEN CodeOf(ret.v[Len(ret.v) + 1 - k]) ELSE 0
        /\ ~Admissible(ret.v) =>
              /\ ret.env_calls = << [fn |-> "symbol_new_from_slice", v |-> ret.v] >>
              /\ ret.res = ret.env_res

\* C22 witness: "hello_world" became the object the environment answered.
C22_Witness ==
    /\ ret.op = "Symbol::try_from_val"
    /\ ret.v = Str_hello_world
    /\ ret.res = OkOf(SymbolObject(2))
    /\ Len(ret.env_calls) = 1

\* C23: the comparison of two Symbols compares the tags first: a small symbol
\* is Less than every object symbol whatever their characters, two small
\* symbols compare by the lexicographic order of their characters, and two
\* object symbols compare as the environment compares the objects.
C23_TagsThenVariant ==
    ret.op = "compare" =>
        /\ (ret.a.small /\ ~ret.b.small) =>
              ret.res = OkOf("Less") /\ ret.env_calls = << >>
        /\ (~ret.a.small /\ ret.b.small) =>
              ret.res = OkOf("Greater") /\ ret.env_calls = << >>
        /\ (ret.a.small /\ ret.b.small) =>
              /\ ret.env_calls = << >>
              /\ ret.res.ok
              /\ ret.res.v = "Less" <=> LexLess(ret.a.s, ret.b.s)
              /\ ret.res.v = "Equal" <=> ret.a.s = ret.b.s
              /\ ret.res.v = "Greater" <=> LexLess(ret.b.s, ret.a.s)
        /\ (~ret.a.small /\ ~ret.b.small) =>
              /\ ret.res = ret.env_res
              /\ ret.env_calls =
                    << [fn |-> "compare", a |-> ret.a.val, b |-> ret.b.val] >>

\* C23 witness: the small symbol "b" is Less than an object although the
\* environment would have answered Greater.
C23_Witness ==
    /\ ret.op = "compare"
    /\ ret.a.small
    /\ ret.a.s = Str_b
    /\ ~ret.b.small
    /\ ret.env_res = OkOf("Greater")
    /\ ret.res = OkOf("Less")

(***************************************************************************)
(* host/data_helper.rs: the contract instance and contract code entries of *)
(* the ledger, read and written through the storage of the host.  The      *)
(* storage and the metered allocations are collaborators: `ctx` carries    *)
(* the entries of the storage (st), the calls made to the collaborators in *)
(* this operation (calls) and the number of the call that fails (fault, 0  *)
(* when none does).  What the metered allocations charge is not            *)
(* represented, only that they can fail.                                   *)
(***************************************************************************)
HostErr(type, code) == [type |-> type, code |-> code, ids |-> << >>]

StorageInternalError == HostErr("Storage", "InternalError")

\* decorate_contract_instance_storage_error / decorate_contract_code_storage_error:
\* the identifier is added to the error.
decorate_storage_error(e, id) == [e EXCEPT !.ids = Append(@, id)]

\* Host::contract_instance_ledger_key
contract_instance_ledger_key(contract_id) ==
    [ kind |-> "ContractData", key |-> "LedgerKeyContractInstance",
      durability |-> "Persistent", contract |-> contract_id ]

\* Host::contract_code_ledger_key
contract_code_ledger_key(wasm_hash) == [kind |-> "ContractCode", hash |-> wasm_hash]

\* Host::ledger_entry_from_data
ledger_entry_from_data(data) ==
    [last_modified_ledger_seq |-> 0, data |-> data, ext |-> "V0"]

ContractInstanceVal(instance) == [kind |-> "ContractInstance", instance |-> instance]

StorageFns == {"get", "get_with_expiration", "has", "put", "bump"}

\* Storage::bump on a present entry: an expiration below the low watermark is
\* raised to the high watermark.
Storage_bump(slot, low, high) ==
    IF slot.expiration < low THEN [slot EXCEPT !.expiration = high] ELSE slot

\* One call of a collaborator: the context after it and its result.
Collab(ctx, call) ==
    LET ctx1 == [ctx EXCEPT !.calls = Append(@, call)]
        present == call.fn \in StorageFns /\ call.key \in DOMAIN ctx.st
        missing == [ctx |-> ctx1, res |-> ErrOf(HostErr("Storage", "MissingValue"))]
    IN IF ctx.fault = Len(ctx1.calls)
       THEN [ ctx |-> ctx1,
              res |-> ErrOf(HostErr(IF call.fn \in StorageFns THEN "Storage" ELSE "Budget",
                                    "ExceededLimit")) ]
       ELSE CASE call.fn = "has" -> [ctx |-> ctx1, res |-> OkOf(present)]
              [] call.fn = "get" ->
                    IF present THEN [ctx |-> ctx1, res |-> OkOf(ctx.st[call.key].entry)]
                    ELSE missing
              [] call.fn = "get_with_expiration" ->
                    IF present THEN [ctx |-> ctx1, res |-> OkOf(ctx.st[call.key])]
                    ELSE missing
              [] call.fn = "put" ->
                    [ ctx |-> [ctx1 EXCEPT !.st =
                                 [k \in DOMAIN ctx.st \cup {call.key} |->
                                    IF k = call.key
                                    THEN [entry |-> call.entry, expiration |-> call.expiration]
                                    ELSE ctx.st[k]]],
                      res |-> OkOf("unit") ]
              [] call.fn = "bump" ->
                    IF present
                    THEN [ ctx |-> [ctx1 EXCEPT !.st[call.key] =
                                      Storage_bump(@, call.low, call.high)],
                           res |-> OkOf("unit") ]
                    ELSE missing
              [] OTHER -> [ctx |-> ctx1, res |-> OkOf("unit")]

\* A metered clone or allocation made by the host.
Metered(what) == [fn |-> "metered", what |-> what]

Failed(ctx, e) == [ctx |-> ctx, res |-> ErrOf(e)]

\* Host::retrieve_contract_instance_from_storage
retrieve_contract_instance_from_storage(ctx, key) ==
    LET g == Collab(ctx, [fn |-> "get", key |-> key])
    IN IF ~g.res.ok THEN g
       ELSE LET data == g.res.v.data
            IN IF data.kind = "ContractData"
               THEN IF data.val.kind = "ContractInstance"
                    THEN LET c == Collab(g.ctx, Metered("instance"))
                         IN IF c.res.ok
                            THEN [ctx |-> c.ctx, res |-> OkOf(data.val.instance)]
                            ELSE c
                    ELSE Failed(g.ctx, StorageInternalError)
               ELSE Failed(g.ctx, StorageInternalError)

\* Variant of retrieve_wasm_from_storage: the variant of the entry is not checked.
retrieve_wasm_of_any_entry(ctx, wasm_hash) ==
    LET k == Collab(ctx, Metered("code key"))
        g == Collab(k.ctx, [fn |-> "get", key |-> contract_code_ledger_key(wasm_hash)])
    IN IF ~k.res.ok THEN k
       ELSE IF ~g.res.ok
       THEN [ctx |-> g.ctx, res |-> ErrOf(decorate_storage_error(g.res.err, wasm_hash))]
       ELSE [ctx |-> g.ctx, res |-> OkOf("code")]

\* Host::retrieve_wasm_from_storage
retrieve_wasm_from_storage(ctx, wasm_hash) ==
    LET k == Collab(ctx, Metered("code key"))
        g == Collab(k.ctx, [fn |-> "get", key |-> contract_code_ledger_key(wasm_hash)])
    IN IF ~k.res.ok THEN k
       ELSE IF ~g.res.ok
       THEN [ctx |-> g.ctx, res |-> ErrOf(decorate_storage_error(g.res.err, wasm_hash))]
       ELSE IF g.res.v.data.kind = "ContractCode"
            THEN LET c == Collab(g.ctx, Metered("code"))
                 IN IF c.res.ok
                    THEN [ctx |-> c.ctx, res |-> OkOf(g.res.v.data.code)]
                    ELSE c
            ELSE Failed(g.ctx, StorageInternalError)

\* Host::wasm_exists
wasm_exists(ctx, wasm_hash) ==
    LET k == Collab(ctx, Metered("code key"))
        h == Collab(k.ctx, [fn |-> "has", key |-> contract_code_ledger_key(wasm_hash)])
    IN IF ~k.res.ok THEN k
       ELSE IF ~h.res.ok
       THEN [ctx |-> h.ctx, res |-> ErrOf(decorate_storage_error(h.res.err, wasm_hash))]
       ELSE h

\* The put of store_contract_instance, its error decorated with the contract.
store_put(ctx, contract_id, key, entry, expiration) ==
    LET p == Collab(ctx, [ fn |-> "put", key |-> key, entry |-> entry,
                           expiration |-> expiration ])
    IN IF p.res.ok THEN p
       ELSE [ctx |-> p.ctx, res |-> ErrOf(decorate_storage_error(p.res.err, contract_id))]

\* The branch of store_contract_instance taken when the key has no entry;
\* min_expiration is what get_min_expiration_ledger(Persistent) answers.
store_new_entry(ctx, instance, contract_id, key, min_expiration) ==
    LET c == Collab(ctx, Metered("contract id"))
        data == [ kind |-> "ContractData", contract |-> contract_id,
                  key |-> "LedgerKeyContractInstance",
                  val |-> ContractInstanceVal(instance),
                  durability |-> "Persistent", ext |-> "V0" ]
        a == Collab(c.ctx, Metered("entry"))
        m == Collab(a.ctx, [fn |-> "get_min_expiration_ledger", durability |-> "Persistent"])
    IN IF ~c.res.ok THEN c
       ELSE IF ~a.res.ok THEN a
       ELSE IF ~m.res.ok THEN m
       ELSE store_put(m.ctx, contract_id, key, ledger_entry_from_data(data), min_expiration)

\* The branch of store_contract_instance taken when the key has an entry.
store_existing_entry(ctx, instance, contract_id, key) ==
    LET g == Collab(ctx, [fn |-> "get_with_expiration", key |-> key])
        c == Collab(g.ctx, Metered("entry clone"))
        current == g.res.v.entry
        a == Collab(c.ctx, Metered("entry"))
    IN IF ~g.res.ok THEN g
       ELSE IF ~c.res.ok THEN c
       ELSE IF current.data.kind = "ContractData"
            THEN IF ~a.res.ok THEN a
                 ELSE store_put(a.ctx, contract_id, key,
                                [current EXCEPT !.data.val = ContractInstanceVal(instance)],
                                g.res.v.expiration)
            ELSE Failed(c.ctx, StorageInternalError)

\* The has of store_contract_instance, its error decorated with the contract.
store_has(ctx, contract_id, key) ==
    LET h == Collab(ctx, [fn |-> "has", key |-> key])
    IN IF h.res.ok THEN h
       ELSE [ctx |-> h.ctx, res |-> ErrOf(decorate_storage_error(h.res.err, contract_id))]

\* Variant of store_contract_instance: an entry that exists is left as it is.
store_contract_instance_insert_only(ctx, instance, contract_id, key, min_expiration) ==
    LET h == store_has(ctx, contract_id, key)
    IN IF ~h.res.ok THEN h
       ELSE IF h.res.v THEN h
       ELSE store_new_entry(h.ctx, instance, contract_id, key, min_expiration)

\* Variant of store_contract_instance: a new entry is written in both branches.
store_contract_instance_always_new(ctx, instance, contract_id, key, min_expiration) ==
    LET h == store_has(ctx, contract_id, key)
    IN IF ~h.res.ok THEN h
       ELSE store_new_entry(h.ctx, instance, contract_id, key, min_expiration)

\* Host::store_contract_instance
store_contract_instance(ctx, instance, contract_id, key, min_expiration) ==
    LET h == store_has(ctx, contract_id, key)
    IN IF ~h.res.ok THEN h
       ELSE IF h.res.v
            THEN store_existing_entry(h.ctx, instance, contract_id, key)
            ELSE store_new_entry(h.ctx, instance, contract_id, key, min_expiration)

\* A bump of the storage, its error decorated with the identifier.
bump_key(ctx, key, id, low, high) ==
    LET b == Collab(ctx, [fn |-> "bump", key |-> key, low |-> low, high |-> high])
    IN IF b.res.ok THEN b
       ELSE [ctx |-> b.ctx, res |-> ErrOf(decorate_storage_error(b.res.err, id))]

\* Variant of bump_contract_instance_and_code_from_contract_id: the code entry
\* is not bumped.
bump_contract_instance_only(ctx, contract_id, low, high) ==
    LET k == Collab(ctx, Metered("instance key"))
        c == Collab(k.ctx, Metered("key clone"))
        b == bump_key(c.ctx, contract_instance_ledger_key(contract_id), contract_id, low, high)
        r == retrieve_contract_instance_from_storage(b.ctx,
                 contract_instance_ledger_key(contract_id))
    IN IF ~k.res.ok THEN k
       ELSE IF ~c.res.ok THEN c
       ELSE IF ~b.res.ok THEN b
       ELSE IF ~r.res.ok THEN r
       ELSE [ctx |-> r.ctx, res |-> OkOf("unit")]

\* Variant of bump_contract_instance_and_code_from_contract_id: a failure after
\* the bump of the instance puts the storage back as it was at the call.
bump_contract_instance_and_code_undone_on_failure(ctx, contract_id, low, high) ==
    LET k == Collab(ctx, Metered("instance key"))
        c == Collab(k.ctx, Metered("key clone"))
        b == bump_key(c.ctx, contract_instance_ledger_key(contract_id), contract_id, low, high)
        r == retrieve_contract_instance_from_storage(b.ctx,
                 contract_instance_ledger_key(contract_id))
        executable == r.res.v.executable
        k2 == Collab(r.ctx, Metered("code key"))
        b2 == bump_key(k2.ctx, contract_code_ledger_key(executable.hash), executable.hash,
                       low, high)
        undone(x) == [ctx |-> [x.ctx EXCEPT !.st = ctx.st], res |-> x.res]
    IN IF ~k.res.ok THEN k
       ELSE IF ~c.res.ok THEN c
       ELSE IF ~b.res.ok THEN b
       ELSE IF ~r.res.ok THEN undone(r)
       ELSE IF executable.kind = "Wasm"
            THEN IF ~k2.res.ok THEN undone(k2)
                 ELSE IF ~b2.res.ok THEN undone(b2) ELSE b2
            ELSE [ctx |-> r.ctx, res |-> OkOf("unit")]

\* Host::bump_contract_instance_and_code_from_contract_id
bump_contract_instance_and_code_from_contract_id(ctx, contract_id, low, high) ==
    LET k == Collab(ctx, Metered("instance key"))
        c == Collab(k.ctx, Metered("key clone"))
        b == bump_key(c.ctx, contract_instance_ledger_key(contract_id), contract_id, low, high)
        r == retrieve_contract_instance_from_storage(b.ctx,
                 contract_instance_ledger_key(contract_id))
        executable == r.res.v.executable
        k2 == Collab(r.ctx, Metered("code key"))
        b2 == bump_key(k2.ctx, contract_code_ledger_key(executable.hash), executable.hash,
                       low, high)
    IN IF ~k.res.ok THEN k
       ELSE IF ~c.res.ok THEN c
       ELSE IF ~b.res.ok THEN b
       ELSE IF ~r.res.ok THEN r
       ELSE IF executable.kind = "Wasm"
            THEN IF ~k2.res.ok THEN k2 ELSE b2
            ELSE [ctx |-> r.ctx, res |-> OkOf("unit")]

(***************************************************************************)
(* The operations of host/data_helper.rs on a storage that holds at most   *)
(* the instance entry of contract c1 and the code entry of hash h1; ret    *)
(* records the last operation, the storage before it and the calls made.   *)
(***************************************************************************)
ContractIds == {"c1", "c2"}
WasmHashes == {"h1", "h2"}
Wasm(wasm_hash) == [kind |-> "Wasm", hash |-> wasm_hash]
Token == [kind |-> "Token"]
Instances == { [executable |-> e, storage |-> "None"] : e \in {Wasm("h1"), Token} }
U32Val == [kind |-> "U32"]
InstanceKeys == { contract_instance_ledger_key(c) : c \in ContractIds }
StoreKey == contract_instance_ledger_key("c1")
CodeKey == contract_code_ledger_key("h1")
MinExpirations == {100}
Watermarks == { <<10, 20>>, <<60, 80>> }
InitialExpiration == 50
FaultPoints == 0..7

ContractDataEntry(contract, val) ==
    ledger_entry_from_data([ kind |-> "ContractData", contract |-> contract,
                             key |-> "LedgerKeyContractInstance", val |-> val,
                             durability |-> "Persistent", ext |-> "V0" ])
ContractCodeEntry(wasm_hash) ==
    ledger_entry_from_data([ kind |-> "ContractCode", hash |-> wasm_hash,
                             code |-> "code", ext |-> "V0" ])

\* What the key of an instance and the key of a code entry may hold at first:
\* nothing, an entry of the expected variant, or an entry of another variant.
InitialInstanceEntries ==
    { ContractDataEntry("c1", ContractInstanceVal(i)) : i \in Instances }
      \cup { ContractDataEntry("c1", U32Val), ContractCodeEntry("h1") }
InitialCodeEntries == { ContractCodeEntry("h1"), ContractDataEntry("c1", U32Val) }

Slot(entry) == [entry |-> entry, expiration |-> InitialExpiration]

InitialStorages ==
    { [k \in keys |-> IF k = StoreKey THEN Slot(ie) ELSE Slot(ce)] :
        keys \in SUBSET {StoreKey, CodeKey},
        ie \in InitialInstanceEntries, ce \in InitialCodeEntries }

StartOf(fault) == [st |-> storage, calls |-> << >>, fault |-> fault]

InitStorage ==
    /\ DefaultBudgetFields
    /\ borrow = "free"
    /\ storage \in InitialStorages
    /\ ret = [op |-> "new"]

\* The storage and the record of an operation that ended in r.
Finish(op, args, r) ==
    /\ storage' = r.ctx.st
    /\ ret' = [ op |-> op, args |-> args, res |-> r.res, calls |-> r.ctx.calls,
                fault |-> r.ctx.fault, before |-> storage ]
    /\ BudgetFieldsUnchanged
    /\ UNCHANGED borrow

StoreContractInstance ==
    \E instance \in Instances, contract_id \in ContractIds,
       min_expiration \in MinExpirations, fault \in FaultPoints :
        Finish("store_contract_instance",
               [ instance |-> instance, contract_id |-> contract_id, key |-> StoreKey,
                 min_expiration |-> min_expiration ],
               store_contract_instance(StartOf(fault), instance, contract_id, StoreKey,
                                       min_expiration))

RetrieveContractInstance ==
    \E key \in InstanceKeys, fault \in FaultPoints :
        Finish("retrieve_contract_instance_from_storage", [key |-> key],
               retrieve_contract_instance_from_storage(StartOf(fault), key))

RetrieveWasm ==
    \E wasm_hash \in WasmHashes, fault \in FaultPoints :
        Finish("retrieve_wasm_from_storage", [wasm_hash |-> wasm_hash],
               retrieve_wasm_from_storage(StartOf(fault), wasm_hash))

WasmExists ==
    \E wasm_hash \in WasmHashes, fault \in FaultPoints :
        Finish("wasm_exists", [wasm_hash |-> wasm_hash],
               wasm_exists(StartOf(fault), wasm_hash))

BumpContractInstanceAndCode ==
    \E contract_id \in ContractIds, w \in Watermarks, fault \in FaultPoints :
        Finish("bump_contract_instance_and_code_from_contract_id",
               [contract_id |-> contract_id, low |-> w[1], high |-> w[2]],
               bump_contract_instance_and_code_from_contract_id(StartOf(fault), contract_id,
                                                                w[1], w[2]))

NextStorage ==
    \/ StoreContractInstance
    \/ RetrieveContractInstance
    \/ RetrieveWasm
    \/ WasmExists
    \/ BumpContractInstanceAndCode

SpecStorage == InitStorage /\ [][NextStorage]_vars

StoreSucceeded == ret.op = "store_contract_instance" /\ ret.res.ok

\* C24: after store_contract_instance(instance, contract_id, key) succeeded,
\* retrieve_contract_instance_from_storage(key) returns exactly that instance,
\* whether the key held an entry before or not and however many stores came
\* before: the instance stored last is the one read.
C24_StoreThenRetrieve ==
    StoreSucceeded =>
        retrieve_contract_instance_from_storage(StartOf(0), ret.args.key).res
            = OkOf(ret.args.instance)

\* A store that replaced another instance under the key.
C24_Witness ==
    /\ StoreSucceeded
    /\ ret.args.key \in DOMAIN ret.before
    /\ ret.before[ret.args.key].entry.data.kind = "ContractData"
    /\ ret.before[ret.args.key].entry.data.val.kind = "ContractInstance"
    /\ ret.before[ret.args.key].entry.data.val.instance # ret.args.instance
    /\ ret.before[ret.args.key].expiration # InitialExpiration

\* A store under a key that held no entry.
C24_FreshReached == StoreSucceeded /\ ret.args.key \notin DOMAIN ret.before

OtherKeysKept ==
    /\ DOMAIN storage = DOMAIN ret.before \cup {ret.args.key}
    /\ \A k \in DOMAIN ret.before \ {ret.args.key} : storage[k] = ret.before[k]

\* C25: a successful store_contract_instance on a key that holds a ContractData
\* entry puts that entry back with only val replaced by the instance: the
\* expiration ledger, contract, key and durability of the entry stay; on a key
\* with no entry it inserts a ContractData entry with durability Persistent,
\* key LedgerKeyContractInstance, contract Contract(contract_id) and the
\* expiration get_min_expiration_ledger(Persistent).  No other key changes.
C25_StoreKeepsOrCreatesEntry ==
    StoreSucceeded =>
        LET key == ret.args.key
            new == storage[key]
        IN /\ OtherKeysKept
           /\ new.entry.data.kind = "ContractData"
           /\ new.entry.data.val = ContractInstanceVal(ret.args.instance)
           /\ IF key \in DOMAIN ret.before
              THEN LET old == ret.before[key]
                   IN /\ old.entry.data.kind = "ContractData"
                      /\ new.expiration = old.expiration
                      /\ new.entry.data.contract = old.entry.data.contract
                      /\ new.entry.data.key = old.entry.data.key
                      /\ new.entry.data.durability = old.entry.data.durability
                      /\ new.entry.data.ext = old.entry.data.ext
                      /\ new.entry.last_modified_ledger_seq = old.entry.last_modified_ledger_seq
                      /\ new.entry.ext = old.entry.ext
              ELSE /\ new.expiration = ret.args.min_expiration
                   /\ new.entry.data.contract = ret.args.contract_id
                   /\ new.entry.data.key = "LedgerKeyContractInstance"
                   /\ new.entry.data.durability = "Persistent"

\* A store over an entry of another contract and another expiration than a
\* new entry would get.
C25_Witness ==
    /\ StoreSucceeded
    /\ ret.args.key \in DOMAIN ret.before
    /\ ret.before[ret.args.key].entry.data.contract # ret.args.contract_id
    /\ ret.before[ret.args.key].expiration # ret.args.min_expiration
    /\ ret.before[ret.args.key].entry.data.val # ContractInstanceVal(ret.args.instance)

\* A store that created the entry.
C25_InsertReached ==
    /\ StoreSucceeded
    /\ ret.args.key \notin DOMAIN ret.before
    /\ CodeKey \in DOMAIN ret.before

IsBump(call) == call.fn = "bump"
BumpsIssued == SelectSeq(ret.calls, IsBump)

HoldsInstance(st, key) ==
    /\ key \in DOMAIN st
    /\ st[key].entry.data.kind = "ContractData"
    /\ st[key].entry.data.val.kind = "ContractInstance"

ExecutableAt(st, key) == st[key].entry.data.val.instance.executable

BumpOf(key) == [fn |-> "bump", key |-> key, low |-> ret.args.low, high |-> ret.args.high]

\* No collaborator call of the operation was made to fail.
NoFault == ret.fault = 0 \/ ret.fault > Len(ret.calls)

\* C26: bump_contract_instance_and_code_from_contract_id(contract_id, lo, hi) on an
\* instance whose executable is Wasm(h) issues a bump of the instance key and
\* then a bump of the ContractCode(h) key, both with (lo, hi), in that order;
\* on an instance whose executable is Token it bumps the instance key only.
\* When a call fails on the way, the bumps issued are the first of these.
C26_BumpsInstanceThenCode ==
    ret.op = "bump_contract_instance_and_code_from_contract_id" =>
        LET ikey == contract_instance_ledger_key(ret.args.contract_id)
            exe == ExecutableAt(ret.before, ikey)
            wanted == IF exe.kind = "Wasm"
                      THEN << BumpOf(ikey), BumpOf(contract_code_ledger_key(exe.hash)) >>
                      ELSE << BumpOf(ikey) >>
        IN IF HoldsInstance(ret.before, ikey)
           THEN /\ Len(BumpsIssued) <= Len(wanted)
                /\ \A i \in 1..Len(BumpsIssued) : BumpsIssued[i] = wanted[i]
                /\ (NoFault \/ ret.res.ok) => BumpsIssued = wanted
           ELSE /\ ~ret.res.ok
                /\ Len(BumpsIssued) <= 1
                /\ \A i \in 1..Len(BumpsIssued) : BumpsIssued[i] = BumpOf(ikey)

\* Both entries were bumped, and both expirations were raised.
C26_Witness ==
    /\ ret.op = "bump_contract_instance_and_code_from_contract_id"
    /\ ret.res.ok
    /\ Len(BumpsIssued) = 2
    /\ storage[BumpsIssued[1].key].expiration > ret.before[BumpsIssued[1].key].expiration
    /\ storage[BumpsIssued[2].key].expiration > ret.before[BumpsIssued[2].key].expiration

\* A Token instance was bumped.
C26_TokenReached ==
    /\ ret.op = "bump_contract_instance_and_code_from_contract_id"
    /\ ret.res.ok
    /\ Len(BumpsIssued) = 1
    /\ CodeKey \in DOMAIN storage

\* The operation ended with an error that a call of the storage returned.
StorageErrorReturned ==
    /\ ret.op # "new"
    /\ ~ret.res.ok
    /\ ret.calls # << >>
    /\ ret.calls[Len(ret.calls)].fn \in StorageFns
    /\ ret.res.err.type = "Storage"
    /\ ret.res.err.code \in {"ExceededLimit", "MissingValue"}

\* The identifier an operation has at hand to decorate an error with.
IdentifiersOf(args) ==
    IF "contract_id" \in DOMAIN args THEN {args.contract_id} \cup WasmHashes
    ELSE IF "wasm_hash" \in DOMAIN args THEN {args.wasm_hash}
    ELSE ContractIds \cup WasmHashes

\* C27: every error that the storage returns (from get, get_with_expiration,
\* has, put or bump) during an operation of the facade reaches the caller
\* decorated with the contract_id or wasm_hash concerned.
C27_StorageErrorsAreDecorated ==
    StorageErrorReturned =>
        /\ ret.res.err.ids # << >>
        /\ \A i \in 1..Len(ret.res.err.ids) : ret.res.err.ids[i] \in IdentifiersOf(ret.args)

\* The storage errors that do reach the caller decorated: all but those of the
\* get of retrieve_contract_instance_from_storage and of the
\* get_with_expiration of store_contract_instance.
C27_DecoratedCallSites ==
    StorageErrorReturned =>
        LET last == ret.calls[Len(ret.calls)]
            bare == \/ last.fn = "get_with_expiration"
                    \/ last.fn = "get" /\ last.key.kind = "ContractData"
        IN IF bare THEN ret.res.err.ids = << >>
           ELSE Len(ret.res.err.ids) = 1 /\ ret.res.err.ids[1] \in IdentifiersOf(ret.args)

\* store_contract_instance returned the bare error of get_with_expiration.
C27_Witness ==
    /\ StorageErrorReturned
    /\ ret.op = "store_contract_instance"
    /\ ret.calls[Len(ret.calls)].fn = "get_with_expiration"
    /\ ret.res.err.ids = << >>

IsPut(call) == call.fn = "put"

FailedWithStorageInternalError ==
    /\ ret.res = ErrOf(StorageInternalError)
    /\ storage = ret.before
    /\ SelectSeq(ret.calls, IsPut) = << >>

\* C28: an entry of the wrong variant yields (Storage, InternalError) and no
\* write: retrieve_contract_instance_from_storage fails so when the entry is
\* not ContractData or its val is not a ContractInstance,
\* retrieve_wasm_from_storage when the entry is not ContractCode, and
\* store_contract_instance on an existing entry that is not ContractData fails
\* so without calling put, the stored entry and its expiration unchanged.
C28_WrongVariantIsInternalError ==
    /\ (/\ ret.op = "retrieve_contract_instance_from_storage"
        /\ NoFault
        /\ ret.args.key \in DOMAIN ret.before
        /\ ~HoldsInstance(ret.before, ret.args.key))
          => FailedWithStorageInternalError
    /\ (/\ ret.op = "retrieve_wasm_from_storage"
        /\ NoFault
        /\ contract_code_ledger_key(ret.args.wasm_hash) \in DOMAIN ret.before
        /\ ret.before[contract_code_ledger_key(ret.args.wasm_hash)].entry.data.kind
              # "ContractCode")
          => FailedWithStorageInternalError
    /\ (/\ ret.op = "store_contract_instance"
        /\ NoFault
        /\ ret.args.key \in DOMAIN ret.before
        /\ ret.before[ret.args.key].entry.data.kind # "ContractData")
          => FailedWithStorageInternalError

\* A store on a key that holds a ContractCode entry.
C28_Witness ==
    /\ ret.op = "store_contract_instance"
    /\ NoFault
    /\ ret.args.key \in DOMAIN ret.before
    /\ ret.before[ret.args.key].entry.data.kind = "ContractCode"
    /\ ret.res = ErrOf(StorageInternalError)

\* A retrieve_wasm_from_storage on a ContractData entry.
C28_WasmReached ==
    /\ ret.op = "retrieve_wasm_from_storage"
    /\ NoFault
    /\ CodeKey \in DOMAIN ret.before
    /\ ret.before[CodeKey].entry.data.kind = "ContractData"
    /\ ret.res = ErrOf(StorageInternalError)

\* A retrieve_contract_instance_from_storage on a ContractData entry whose val
\* is not an instance.
C28_NotInstanceReached ==
    /\ ret.op = "retrieve_contract_instance_from_storage"
    /\ NoFault
    /\ ret.args.key \in DOMAIN ret.before
    /\ ret.before[ret.args.key].entry.data.kind = "ContractData"
    /\ ret.before[ret.args.key].entry.data.val.kind = "U32"
    /\ ret.res = ErrOf(StorageInternalError)

(***************************************************************************)
(* The borrows of the RefCell that holds the BudgetImpl.  Every operation  *)
(* of Budget starts with try_borrow_mut_or_err or try_borrow_or_err; a     *)
(* holder outside the operation (a closure that calls back into the        *)
(* budget, a formatter) may have the cell borrowed at that moment.         *)
(***************************************************************************)
\* Variant of try_borrow_mut_or_err: a borrow that is held goes unnoticed.
try_borrow_mut_unchecked(flag) == Ok

\* RefCell::try_borrow_mut, its BorrowMutError turned into a HostError.
try_borrow_mut_or_err(flag) == IF flag = "free" THEN Ok ELSE ContextInternalError

\* RefCell::try_borrow, its BorrowError turned into a HostError.
try_borrow_or_err(flag) == IF flag = "exclusive" THEN ContextInternalError ELSE Ok

\* An operation that returns the error of its borrow.
BorrowRefused(call) ==
    /\ ret' = call
    /\ BudgetUnchanged

\* Budget::mut_budget and the operations that borrow the cell as it does: Act
\* is what the operation does with the borrow, call its record when refused.
mut_budget(call, Act) ==
    IF try_borrow_mut_or_err(borrow) = Ok THEN Act ELSE BorrowRefused(call)

Refused(op, ty, iterations, input) == Call(op, ty, iterations, input, ContextInternalError)

\* A holder outside the operations borrows the cell, shared or exclusively.
Hold ==
    /\ borrow = "free"
    /\ borrow' \in {"shared", "exclusive"}
    /\ BudgetFieldsUnchanged
    /\ UNCHANGED << ret, storage >>

\* The holder drops its borrow.
Release ==
    /\ borrow # "free"
    /\ borrow' = "free"
    /\ BudgetFieldsUnchanged
    /\ UNCHANGED << ret, storage >>

\* The calls explored: one charge between two resets, one frame entered, one
\* with_free_budget at a time.
BorrowingCharge ==
    \E input \in ChargeInputs :
        mut_budget(Refused("charge", "HostMemAlloc", 1, input),
                   charges = 0 /\ DoCharge("charge", "HostMemAlloc", 1, input))

BorrowingBulkCharge ==
    \E iterations \in BulkIterations :
        mut_budget(Refused("bulk_charge", "HostMemAlloc", iterations, None),
                   charges = 0 /\ DoCharge("bulk_charge", "HostMemAlloc", iterations, None))

BorrowingEnter == mut_budget(Refused("enter", "WasmInsnExec", 0, None), nest = 0 /\ Enter)

BorrowingLeave == mut_budget(Refused("leave", "WasmInsnExec", 0, None), nest > 0 /\ Leave)

BorrowingResetLimits == mut_budget(Refused("reset_limits", "WasmInsnExec", 0, None), ResetLimits)

BorrowingResetTracker ==
    mut_budget(Refused("reset_tracker", "WasmInsnExec", 0, None), ResetTracker)

\* with_free_budget(f) up to the call of f; f is not called when the borrow is
\* refused.
BorrowingWithFreeBudgetBegin ==
    mut_budget(Refused("with_free_budget", "WasmInsnExec", 0, None),
               free_stack = << >> /\ WithFreeBudgetBegin)

\* with_free_budget(f) from the return of f; the flag is not restored when the
\* borrow is refused.
BorrowingWithFreeBudgetEnd ==
    IF try_borrow_mut_or_err(borrow) = Ok THEN WithFreeBudgetEnd
    ELSE /\ free_stack # << >>
         /\ free_stack' = Tail(free_stack)
         /\ ret' = Refused("with_free_budget", "WasmInsnExec", 0, None)
         /\ UNCHANGED << borrow, storage, cpu_insns, mem_bytes, tracker, enabled, fuel_config,
                         depth_limit, charges, exceeded, nest, balanced >>

Getters ==
    [ get_cpu_insns_consumed  |-> cpu_insns.total_count,
      get_mem_bytes_consumed  |-> mem_bytes.total_count,
      get_cpu_insns_remaining |-> get_remaining(cpu_insns),
      get_mem_bytes_remaining |-> get_remaining(mem_bytes) ]

\* Budget::get_cpu_insns_consumed and the other getters.
Get ==
    \E op \in DOMAIN Getters :
        /\ ret' = IF try_borrow_or_err(borrow) = Ok
                  THEN Call(op, "WasmInsnExec", 0, None, Ok) @@ [value |-> Getters[op]]
                  ELSE Refused(op, "WasmInsnExec", 0, None)
        /\ BudgetUnchanged

NextBorrow ==
    \/ Hold
    \/ Release
    \/ BorrowingCharge
    \/ BorrowingBulkCharge
    \/ BorrowingEnter
    \/ BorrowingLeave
    \/ BorrowingResetLimits
    \/ BorrowingResetTracker
    \/ BorrowingWithFreeBudgetBegin
    \/ BorrowingWithFreeBudgetEnd
    \/ Get

\* A budget as Budget::default() builds it, the cell not borrowed.
InitBorrow ==
    /\ Init
    /\ Impl = BudgetImpl_default

SpecBorrow == InitBorrow /\ [][NextBorrow]_vars

C29_FreeBudgetNotRestored ==
    /\ borrow = "exclusive"
    /\ ret = Refused("with_free_budget", "WasmInsnExec", 0, None)
    /\ free_stack = << >>
    /\ ~enabled

\* A getter answered under a shared borrow.
C29_SharedGetterReached ==
    /\ borrow = "shared"
    /\ ret.op = "get_cpu_insns_consumed"
    /\ ret.res = Ok
    /\ ret.value > 0

(***************************************************************************)
(* Building a budget from the cost schedules of the network configuration: *)
(* a schedule is a sequence of <<const_term, linear_term>> entries of      *)
(* signed integers.                                                        *)
(***************************************************************************)
\* Variant of the conversion of an entry: only const_term is looked at.
MeteredCostComponent_try_from_const_only(entry) ==
    IF entry[1] < 0 THEN ErrOf(ContextInvalidInput)
    ELSE OkOf(MeteredCostComponent(entry[1], entry[2]))

\* impl TryFrom<&ContractCostParamEntry> for MeteredCostComponent
MeteredCostComponent_try_from(entry) ==
    IF entry[1] < 0 \/ entry[2] < 0 THEN ErrOf(ContextInvalidInput)
    ELSE OkOf(MeteredCostComponent(entry[1], entry[2]))

\* BudgetDimension::try_from_config with the error of the first entry refused.
BudgetDimension_try_from_config_result(cost_params) ==
    LET refused == { i \in 1..Len(cost_params) :
                        ~MeteredCostComponent_try_from(cost_params[i]).ok }
    IN IF refused # {}
       THEN MeteredCostComponent_try_from(
                cost_params[CHOOSE i \in refused : \A j \in refused : i <= j])
       ELSE OkOf([ cost_models |-> [i \in 1..Len(cost_params) |->
                                       MeteredCostComponent_try_from(cost_params[i]).v],
                   limit       |-> 0,
                   counts      |-> [i \in 1..Len(cost_params) |-> 0],
                   total_count |-> 0 ])

\* Budget::try_from_configs
Budget_try_from_configs(cpu_limit, mem_limit, cpu_cost_params, mem_cost_params) ==
    LET cpu == BudgetDimension_try_from_config_result(cpu_cost_params)
        mem == BudgetDimension_try_from_config_result(mem_cost_params)
    IN IF ~cpu.ok THEN cpu
       ELSE IF ~mem.ok THEN mem
       ELSE OkOf([ cpu_insns   |-> BudgetDimension_reset(cpu.v, cpu_limit),
                   mem_bytes   |-> BudgetDimension_reset(mem.v, mem_limit),
                   tracker     |-> init_tracker(MeterTracker_default),
                   enabled     |-> TRUE,
                   fuel_config |-> FuelConfig_default,
                   depth_limit |-> DEFAULT_HOST_DEPTH_LIMIT ])

ConfigTerms == {-1, 0, 7}
ConfigEntries == ConfigTerms \X ConfigTerms
ConfigSchedules == UNION { [1..n -> ConfigEntries] : n \in 0..2 }
ConfigLimits == { <<1000, 2000>> }

InitConfig ==
    /\ IdleBudget
    /\ \E cpu \in ConfigSchedules, mem \in ConfigSchedules, limits \in ConfigLimits :
          ret = [ op |-> "config", cpu_limit |-> limits[1], mem_limit |-> limits[2],
                  cpu_cost_params |-> cpu, mem_cost_params |-> mem ]

\* Budget::try_from_configs on the configuration held: the budget built takes
\* the place of the fields, a refusal leaves none.
TryFromConfigs ==
    /\ ret.op = "config"
    /\ LET r == Budget_try_from_configs(ret.cpu_limit, ret.mem_limit,
                                        ret.cpu_cost_params, ret.mem_cost_params)
       IN /\ ret' = [ret EXCEPT !.op = "try_from_configs"] @@ [res |-> r]
          /\ IF r.ok THEN SetImpl(r.v)
             ELSE UNCHANGED << cpu_insns, mem_bytes, tracker, enabled, fuel_config,
                               depth_limit >>
    /\ UNCHANGED << borrow, storage, free_stack, charges, exceeded, nest, balanced >>

NextConfig == TryFromConfigs

SpecConfig == InitConfig /\ [][NextConfig]_vars

HasNegativeTerm(cost_params) ==
    \E i \in 1..Len(cost_params) : cost_params[i][1] < 0 \/ cost_params[i][2] < 0

\* The dimension d is the one the schedule and the limit describe.
DimensionOf(d, cost_params, limit) ==
    /\ Len(d.cost_models) = Len(cost_params)
    /\ \A i \in 1..Len(cost_params) :
          /\ d.cost_models[i].const_term = cost_params[i][1]
          /\ d.cost_models[i].lin_term = cost_params[i][2]
    /\ d.counts = [i \in 1..Len(cost_params) |-> 0]
    /\ d.total_count = 0
    /\ d.limit = limit

\* C30: building a budget from the configuration fails with (Context,
\* InvalidInput), producing no budget, whenever an entry of the cpu or of the
\* memory schedule has a negative const_term or linear_term; when no entry
\* has, each dimension has exactly params.len() models with the configured
\* terms, zero counts and the limit given.
C30_NegativeTermsRefused ==
    ret.op = "try_from_configs" =>
        IF HasNegativeTerm(ret.cpu_cost_params) \/ HasNegativeTerm(ret.mem_cost_params)
        THEN /\ ret.res = ErrOf(ContextInvalidInput)
             /\ Impl = BudgetImpl_default
        ELSE /\ ret.res.ok
             /\ ret.res.v = Impl
             /\ DimensionOf(cpu_insns, ret.cpu_cost_params, ret.cpu_limit)
             /\ DimensionOf(mem_bytes, ret.mem_cost_params, ret.mem_limit)

\* Refused for the linear_term of the last entry of the memory schedule alone.
C30_Witness ==
    /\ ret.op = "try_from_configs"
    /\ ~HasNegativeTerm(ret.cpu_cost_params)
    /\ ret.mem_cost_params = << <<7, 7>>, <<0, -1>> >>
    /\ ret.res = ErrOf(ContextInvalidInput)

\* A budget built from schedules of two and of no entries.
C30_BuiltReached ==
    /\ ret.op = "try_from_configs"
    /\ ret.res.ok
    /\ Len(cpu_insns.cost_models) = 2
    /\ cpu_insns.cost_models[2].lin_term = 7
    /\ Len(mem_bytes.cost_models) = 0
    /\ cpu_insns.limit = 1000

(***************************************************************************)
(* Metering with a cost type that costs nothing (VecEntry) beside one that *)
(* costs (HostMemAlloc): charges after an overrun.                         *)
(***************************************************************************)
StickyTypes == {"HostMemAlloc", "VecEntry"}
StickyIterations == {0, 2, U64_MAX}

StickyCharge ==
    \E ty \in StickyTypes, input \in ChargeInputs : DoCharge("charge", ty, 1, input)

StickyBulkCharge ==
    \E ty \in StickyTypes, iterations \in StickyIterations, input \in ChargeInputs :
        DoCharge("bulk_charge", ty, iterations, input)

NextSticky ==
    \/ StickyCharge
    \/ StickyBulkCharge
    \/ ResetLimits
    \/ WithFreeBudgetBegin
    \/ WithFreeBudgetEnd

SpecSticky == InitBorrow /\ [][NextSticky]_vars

Overrun(d) == d.total_count > d.limit

\* Between two resets of the limits no total decreases and an overrun stays.
OverrunStays ==
    ret'.op # "reset_limits" =>
        /\ cpu_insns'.total_count >= cpu_insns.total_count
        /\ mem_bytes'.total_count >= mem_bytes.total_count
        /\ Overrun(cpu_insns) => Overrun(cpu_insns')
        /\ Overrun(mem_bytes) => Overrun(mem_bytes')

\* C31 as stated: once the total_count of a dimension exceeds its limit, it
\* never decreases and every later enabled charge/bulk_charge returns
\* ExceededLimit, also one whose amount is zero, until the limits are reset.
C31_EveryChargeAfterOverrunExceeds ==
    [][ /\ OverrunStays
        /\ (/\ Overrun(cpu_insns) \/ Overrun(mem_bytes)
            /\ enabled
            /\ ret'.op \in ChargeOps)
              => ret'.res = BudgetExceededLimit
      ]_vars

\* C31 amended: once the total_count of a dimension exceeds its limit, it never
\* decreases and every later enabled charge/bulk_charge whose input presence
\* matches the kind of the cost type returns ExceededLimit, also one whose
\* amount is zero, until the limits are reset; a charge whose input presence
\* does not match returns InternalError.
C31_OverrunIsSticky ==
    [][ /\ OverrunStays
        /\ (/\ Overrun(cpu_insns) \/ Overrun(mem_bytes)
            /\ enabled
            /\ ret'.op \in ChargeOps)
              => ret'.res = IF InputMatchesKind(ret') THEN BudgetExceededLimit
                            ELSE ContextInternalError
      ]_vars

\* A charge of the type that costs nothing was refused on a budget whose
\* memory alone is over its limit.
C31_Witness ==
    /\ enabled
    /\ ret.op = "charge"
    /\ ret.ty = "VecEntry"
    /\ ~ret.input.some
    /\ ret.res = BudgetExceededLimit
    /\ ~Overrun(cpu_insns)
    /\ Overrun(mem_bytes)

\* A bulk charge of no iterations was refused on a saturated cpu total.
C31_SaturatedReached ==
    /\ enabled
    /\ ret.op = "bulk_charge"
    /\ ret.iterations = 0
    /\ ret.res = BudgetExceededLimit
    /\ cpu_insns.total_count = U64_MAX

\* The dimension d2 is d reset to the limit: the limit set, the total and every
\* count zero, the cost models those of d.
IsResetOf(d2, d, limit) ==
    /\ d2.limit = limit
    /\ d2.total_count = 0
    /\ DOMAIN d2.counts = DOMAIN d.counts
    /\ \A i \in DOMAIN d2.counts : d2.counts[i] = 0
    /\ d2.cost_models = d.cost_models

\* C32: reset_limits(cpu, mem), which resets each dimension with
\* BudgetDimension::reset, sets the limits to the values given and zeroes
\* total_count and every count of both dimensions, zeroes the sums and the
\* call count of the tracker, and leaves the cost models, the enabled flag,
\* the fuel configuration and depth_limit unchanged.
C32_ResetFrame ==
    [][ (ret'.op = "reset_limits" /\ ret'.res = Ok) =>
          /\ IsResetOf(cpu_insns', cpu_insns, ret'.cpu)
          /\ IsResetOf(mem_bytes', mem_bytes, ret'.mem)
          /\ tracker'.count = 0
          /\ \A i \in DOMAIN tracker.cost_tracker :
                /\ tracker'.cost_tracker[i].iters = 0
                /\ tracker'.cost_tracker[i].input.v = 0
          /\ UNCHANGED << enabled, fuel_config, depth_limit >>
      ]_vars

\* The limits were reset inside with_free_budget and inside a frame, to
\* limits other than the default ones.
C32_Witness ==
    /\ ret.op = "reset_limits"
    /\ ret.res = Ok
    /\ ~enabled
    /\ depth_limit < DEFAULT_HOST_DEPTH_LIMIT
    /\ cpu_insns.limit = 1149
    /\ mem_bytes.limit = 1040
    /\ cpu_insns.total_count = 0

(***************************************************************************)
(* The resets of Budget, with the charges between them.                    *)
(***************************************************************************)
\* Budget::reset_unlimited_cpu
reset_unlimited_cpu(b) ==
    reset_tracker([b EXCEPT !.cpu_insns = BudgetDimension_reset(@, U64_MAX)])

\* Budget::reset_unlimited_mem
reset_unlimited_mem(b) ==
    reset_tracker([b EXCEPT !.mem_bytes = BudgetDimension_reset(@, U64_MAX)])

\* Budget::reset_unlimited
reset_unlimited(b) == reset_unlimited_mem(reset_unlimited_cpu(b))

\* Budget::reset_default
reset_default(b) == BudgetImpl_default

ResetUnlimited ==
    /\ SetImpl(reset_unlimited(Impl))
    /\ ret' = Call("reset_unlimited", "WasmInsnExec", 0, None, Ok)
    /\ charges' = 0
    /\ exceeded' = FALSE
    /\ UNCHANGED << borrow, storage, free_stack, nest, balanced >>

ResetDefault ==
    /\ SetImpl(reset_default(Impl))
    /\ ret' = Call("reset_default", "WasmInsnExec", 0, None, Ok)
    /\ charges' = 0
    /\ exceeded' = FALSE
    /\ UNCHANGED << borrow, storage, free_stack, nest, balanced >>

NextTracker ==
    \/ Charge
    \/ BulkCharge
    \/ ResetTracker
    \/ ResetLimits
    \/ ResetUnlimited
    \/ ResetDefault

SpecTracker == Init /\ [][NextTracker]_vars

TypesWithInput ==
    { "HostMemAlloc", "HostMemCpy", "HostMemCmp", "ValSer", "ValDeser",
      "ComputeSha256Hash", "ComputeKeccak256Hash", "VerifyEd25519Sig", "VmMemRead",
      "VmMemWrite", "VmInstantiation", "VmCachedInstantiation" }

ResetOps == {"reset_tracker", "reset_limits", "reset_unlimited", "reset_default"}

\* C33: in every state reached from Budget::default() or try_from_configs by
\* charge, bulk_charge, reset_tracker, reset_limits, reset_unlimited and
\* reset_default, the input slot of the tracker is Some exactly for the twelve
\* linear cost types and None for all others; a reset zeroes the sums and
\* never changes which slots are Some.
C33_InputSlotPresence ==
    /\ [](\A i \in 1..NumCostTypes :
             tracker.cost_tracker[i].input.some
                <=> ContractCostTypeVariants[i] \in TypesWithInput)
    /\ [][ ret'.op \in ResetOps =>
             \A i \in 1..NumCostTypes :
                /\ tracker'.cost_tracker[i].input.some = tracker.cost_tracker[i].input.some
                /\ tracker'.cost_tracker[i].input.v = 0
                /\ tracker'.cost_tracker[i].iters = 0
         ]_vars

\* The tracker was reset after charges on a budget built from a configuration:
\* the slot of HostMemAlloc is Some(0), that of WasmInsnExec is None.
C33_Witness ==
    /\ ret.op = "reset_tracker"
    /\ cpu_insns.limit = 1000
    /\ cpu_insns.counts[Idx("HostMemAlloc")] > 0
    /\ tracker.cost_tracker[Idx("HostMemAlloc")].input = Some(0)
    /\ tracker.cost_tracker[Idx("WasmInsnExec")].input = None

\* A slot holds the input charged.
C33_ChargedReached ==
    /\ ret.op = "charge"
    /\ cpu_insns.limit = U64_MAX
    /\ tracker.cost_tracker[Idx("HostMemAlloc")].input = Some(1024)

(***************************************************************************)
(* SymbolSmallIter started on arbitrary words: every subset of the eleven  *)
(* digits of a u64 set to a code, the digits above bit 53 included.        *)
(***************************************************************************)
IterCodes == {1, 38, 63}

IterWords ==
    { [k \in 1..WordDigits |->
          IF k \in S THEN (IF c < 2^DigitWidth(k) THEN c ELSE 2^DigitWidth(k) - 1) ELSE 0] :
        S \in SUBSET (1..WordDigits), c \in IterCodes }

InitIter ==
    /\ IdleBudget
    /\ \E w \in IterWords :
          ret = [ op |-> "SymbolSmallIter", start |-> w, it |-> w, items |-> << >>,
                  calls |-> 0, done |-> FALSE ]

\* One call of next on an iterator that has not returned None yet.
IterNext ==
    /\ ~ret.done
    /\ LET n == SymbolSmallIter_next(ret.it)
       IN ret' = [ op |-> "next", start |-> ret.start, it |-> n.it,
                   items |-> IF n.item.some THEN Append(ret.items, n.item.v) ELSE ret.items,
                   calls |-> ret.calls + 1, done |-> ~n.item.some ]
    /\ BudgetUnchanged

NextIter == IterNext

SpecIter == InitIter /\ [][NextIter]_vars

\* The characters of the codes of w that are not zero, from code k down to the
\* lowest.
RECURSIVE NonZeroChars(_, _)
NonZeroChars(w, k) ==
    IF k = 0 THEN << >>
    ELSE (IF w[k] = 0 THEN << >> ELSE << RepertoireByCode[w[k]] >>) \o NonZeroChars(w, k - 1)

C34_NineReached ==
    /\ ret.done
    /\ ret.calls = 10
    /\ ret.start[WordDigits] # 0
    /\ ret.items = [i \in 1..9 |-> 95]

(***************************************************************************)
(* Budgets built from schedules of other lengths than the number of cost   *)
(* types, and the charges made on them.                                    *)
(***************************************************************************)
ScheduleLengths == {0, 1, 3, NumCostTypes}

InitShort ==
    /\ \E nc \in ScheduleLengths, nm \in ScheduleLengths :
          LET b == Budget_try_from_configs(DEFAULT_CPU_INSN_LIMIT, DEFAULT_MEM_BYTES_LIMIT,
                                           SubSeq(FreeInsnCpuParams, 1, nc),
                                           SubSeq(DefaultMemParams, 1, nm)).v
          IN /\ cpu_insns   = b.cpu_insns
             /\ mem_bytes   = b.mem_bytes
             /\ tracker     = b.tracker
             /\ enabled     = b.enabled
             /\ fuel_config = b.fuel_config
             /\ depth_limit = b.depth_limit
    /\ free_stack = << >>
    /\ ret = Call("new", "WasmInsnExec", 0, None, Ok)
    /\ charges = 0
    /\ exceeded = FALSE
    /\ nest = 0
    /\ balanced = TRUE
    /\ borrow = "free"
    /\ storage = << >>

NextShort ==
    \/ Charge
    \/ BulkCharge
    \/ WithFreeBudgetBegin
    \/ WithFreeBudgetEnd

SpecShort == InitShort /\ [][NextShort]_vars

C35_TrapsOnMissingEntry ==
    [][ (enabled /\ ret'.op \in ChargeOps /\ InputMatchesKind(ret')) =>
          LET i == Idx(ret'.ty)
          IN ret'.res = IndexOutOfBounds
               <=> \/ i > Len(cpu_insns.cost_models)
                   \/ /\ ~Overrun(cpu_insns')
                      /\ i > Len(mem_bytes.cost_models)
      ]_vars

C35_MemoryTrapReached ==
    /\ ret.op = "charge"
    /\ ret.res = IndexOutOfBounds
    /\ Len(cpu_insns.cost_models) = NumCostTypes
    /\ Len(mem_bytes.cost_models) < NumCostTypes
    /\ cpu_insns.total_count > 0


(***************************************************************************)
(* What a charge refused for its input leaves behind in the tracker.       *)
(***************************************************************************)
\* C36: an enabled charge/bulk_charge that returns Context/InternalError has
\* already counted the call in the tracker (count + 1, saturating) and added
\* its iterations to the iteration sum of its cost type; the input sum of the
\* type, the tracker entries of the other types and both budget dimensions are
\* as before the call.
C36_RefusedChargeIsTracked ==
    [][ (enabled /\ ret'.op \in ChargeOps /\ ret'.res = ContextInternalError) =>
          LET i == Idx(ret'.ty)
          IN /\ ~InputMatchesKind(ret')
             /\ tracker'.count = u32_saturating_add(tracker.count, 1)
             /\ tracker'.cost_tracker[i].iters =
                    saturating_add(tracker.cost_tracker[i].iters, ret'.iterations)
             /\ tracker'.cost_tracker[i].input = tracker.cost_tracker[i].input
             /\ \A j \in DOMAIN tracker.cost_tracker :
                    j # i => tracker'.cost_tracker[j] = tracker.cost_tracker[j]
             /\ cpu_insns' = cpu_insns
             /\ mem_bytes' = mem_bytes
      ]_vars

\* C36 witness: a charge of HostMemAlloc made without input was refused; the
\* tracker has counted the call and its iteration while the input sum of the
\* type is still zero and nothing was charged.
C36_Witness ==
    /\ enabled
    /\ ret.op = "charge"
    /\ ret.ty = "HostMemAlloc"
    /\ ~ret.input.some
    /\ ret.res = ContextInternalError
    /\ tracker.count = 1
    /\ tracker.cost_tracker[Idx("HostMemAlloc")].iters = 1
    /\ tracker.cost_tracker[Idx("HostMemAlloc")].input = Some(0)
    /\ cpu_insns.total_count = 0
    /\ mem_bytes.total_count = 0

(***************************************************************************)
(* bulk_charge(ty, n, input) against n calls of charge(ty, input) made     *)
(* from the same budget.                                                   *)
(***************************************************************************)
\* Largest batch compared.
MaxBatch == 3

\* n calls of BudgetImpl::charge(ty, 1, input) one after the other, whatever
\* each returns: the budget after them and the value the last one returned
\* ("none" when n = 0).
RECURSIVE charge_n_times(_, _, _, _)
charge_n_times(b, ty, input, n) ==
    IF n = 0 THEN [b |-> b, res |-> "none"]
    ELSE BudgetImpl_charge(charge_n_times(b, ty, input, n - 1).b, ty, 1, input)

\* Limits that one, two or any number of charges of HostMemAlloc(Some(1024))
\* (1149 cpu instructions, 1040 bytes) stay within.
BatchCpuLimits == {1149, 2 * 1149, DEFAULT_CPU_INSN_LIMIT}
BatchMemLimits == {1040, 2 * 1040, DEFAULT_MEM_BYTES_LIMIT}

InitBatch ==
    /\ \E cpu \in BatchCpuLimits, mem \in BatchMemLimits :
          LET b == reset_limits(BudgetImpl_default, cpu, mem)
          IN /\ cpu_insns   = b.cpu_insns
             /\ mem_bytes   = b.mem_bytes
             /\ tracker     = b.tracker
             /\ enabled     = b.enabled
             /\ fuel_config = b.fuel_config
             /\ depth_limit = b.depth_limit
    /\ free_stack = << >>
    /\ ret = Call("new", "WasmInsnExec", 0, None, Ok)
    /\ charges = 0
    /\ exceeded = FALSE
    /\ nest = 0
    /\ balanced = TRUE
    /\ borrow = "free"
    /\ storage = << >>

\* Budget::bulk_charge(ty, n, input); the call record keeps the budget the
\* call started from and what n single charges make of that budget.
BatchCharge ==
    \E ty \in ChargeTypes, n \in 0..MaxBatch, input \in ChargeInputs :
        /\ enabled => charges < MaxCharges
        /\ LET r == BudgetImpl_charge(Impl, ty, n, input)
               s == charge_n_times(Impl, ty, input, n)
           IN /\ SetImpl(r.b)
              /\ ret' = Call("bulk_charge", ty, n, input, r.res)
                           @@ [before |-> Impl, singles |-> s.b, last |-> s.res]
              /\ exceeded' = (exceeded \/ r.res = BudgetExceededLimit)
        /\ charges' = IF enabled THEN charges + 1 ELSE charges
        /\ UNCHANGED << borrow, storage, free_stack, nest, balanced >>

NextBatch ==
    \/ BatchCharge
    \/ Charge

SpecBatch == InitBatch /\ [][NextBatch]_vars

\* The sums of the tracker without its call count.
TrackerSums(t) == t.cost_tracker

\* No counter of the budget has reached the largest value of its type.
Unsaturated(b) ==
    /\ b.cpu_insns.total_count < U64_MAX
    /\ b.mem_bytes.total_count < U64_MAX
    /\ b.tracker.count < U32_MAX
    /\ \A i \in DOMAIN b.tracker.cost_tracker :
          /\ b.tracker.cost_tracker[i].iters < U64_MAX
          /\ b.tracker.cost_tracker[i].input.some =>
                b.tracker.cost_tracker[i].input.v < U64_MAX

\* The case the comparison is about: a bulk charge with matching input on a
\* metered budget, no counter saturated on either side.
BatchCompared ==
    /\ ret.op = "bulk_charge"
    /\ ret.before.enabled
    /\ InputMatchesKind(ret)
    /\ Unsaturated(Impl)
    /\ Unsaturated(ret.singles)

\* C37 as stated: the bulk charge leaves the cpu and memory counters and the
\* tracker sums that n single charges leave, the call count is 1 more instead
\* of n more, and (for n >= 1) the bulk charge returns ExceededLimit exactly
\* when the last single charge does.
C37_BulkEqualsSingles ==
    BatchCompared =>
        /\ Counters(cpu_insns) = Counters(ret.singles.cpu_insns)
        /\ Counters(mem_bytes) = Counters(ret.singles.mem_bytes)
        /\ TrackerSums(tracker) = TrackerSums(ret.singles.tracker)
        /\ tracker.count = ret.before.tracker.count + 1
        /\ ret.singles.tracker.count = ret.before.tracker.count + ret.iterations
        /\ ret.iterations >= 1 =>
              (ret.res = BudgetExceededLimit <=> ret.last = BudgetExceededLimit)

\* C37: what holds of the code. The cpu counters, the tracker sums, the call
\* counts and (for n >= 1) the result are as stated. The memory counters are
\* those of the n single charges when the bulk charge leaves the cpu total
\* within its limit; when it does not, the bulk charge leaves the memory
\* counters as they were, whereas each single charge that left the cpu total
\* within its limit has charged memory. With n = 0 the bulk charge returns
\* ExceededLimit exactly when a dimension was already over its limit.
C37_BulkEqualsSinglesUpToCpuOverrun ==
    BatchCompared =>
        /\ Counters(cpu_insns) = Counters(ret.singles.cpu_insns)
        /\ TrackerSums(tracker) = TrackerSums(ret.singles.tracker)
        /\ tracker.count = ret.before.tracker.count + 1
        /\ ret.singles.tracker.count = ret.before.tracker.count + ret.iterations
        /\ ret.iterations >= 1 =>
              (ret.res = BudgetExceededLimit <=> ret.last = BudgetExceededLimit)
        /\ ret.iterations = 0 =>
              (ret.res = BudgetExceededLimit <=>
                  Overrun(ret.before.cpu_insns) \/ Overrun(ret.before.mem_bytes))
        /\ ~Overrun(cpu_insns) =>
              Counters(mem_bytes) = Counters(ret.singles.mem_bytes)
        /\ Overrun(cpu_insns) =>
              /\ Counters(mem_bytes) = Counters(ret.before.mem_bytes)
              /\ ret.singles.mem_bytes.total_count =
                    ret.before.mem_bytes.total_count
                    + AmountOf(ret.before.mem_bytes, [ret EXCEPT !.iterations = 1])
                      * Cardinality({k \in 1..ret.iterations :
                            ~Overrun(charge_n_times(ret.before, ret.ty, ret.input, k).b.cpu_insns)})

\* C37 witness: a bulk charge of three HostMemAlloc(Some(1024)) on a budget
\* whose cpu limit holds two of them: the cpu total is that of the three
\* single charges, the bulk charge has charged no memory and the single
\* charges have charged memory twice.
C37_Witness ==
    /\ BatchCompared
    /\ ret.ty = "HostMemAlloc"
    /\ ret.iterations = 3
    /\ ret.res = BudgetExceededLimit
    /\ ret.last = BudgetExceededLimit
    /\ cpu_insns.total_count = 3 * 1149
    /\ ret.singles.cpu_insns.total_count = 3 * 1149
    /\ mem_bytes.total_count = 0
    /\ ret.singles.mem_bytes.total_count = 2 * 1040

\* C37, the case without overrun: the bulk charge and the single charges
\* leave the same counters in both dimensions.
C37_EqualReached ==
    /\ BatchCompared
    /\ ret.ty = "HostMemAlloc"
    /\ ret.iterations = 2
    /\ ret.res = Ok
    /\ mem_bytes.total_count = 2 * 1040
    /\ Counters(mem_bytes) = Counters(ret.singles.mem_bytes)

(***************************************************************************)
(* bump_contract_instance_and_code_from_contract_id when a step fails.     *)
(***************************************************************************)
IsGet(call) == call.fn = "get"

BumpCalled == ret.op = "bump_contract_instance_and_code_from_contract_id"

BumpedInstanceKey == contract_instance_ledger_key(ret.args.contract_id)

\* The key and its clone were made, and the bump of the instance entry failed:
\* the storage refused it or holds no entry under the key.
InstanceBumpFailed ==
    /\ BumpCalled
    /\ ret.fault \notin {1, 2}
    /\ ret.fault = 3 \/ BumpedInstanceKey \notin DOMAIN ret.before

\* The bump of the instance entry succeeded.
InstanceBumpSucceeded ==
    /\ BumpCalled
    /\ ret.fault \notin {1, 2, 3}
    /\ BumpedInstanceKey \in DOMAIN ret.before

\* C38: the operation stops at the first failure and undoes nothing. When the
\* bump of the instance fails, the error is returned, the instance is not read
\* and no bump of a ContractCode key is issued. When the bump of the instance
\* succeeded and a later step fails (the read of the instance, the making of
\* the code key, the bump of the code), the error is returned, the failed step
\* is the last call made, and the instance entry has the expiration the bump
\* gave it; the other entries are as before.
C38_StopsAtFirstFailure ==
    /\ InstanceBumpFailed =>
          /\ ~ret.res.ok
          /\ SelectSeq(ret.calls, IsGet) = << >>
          /\ BumpsIssued = << BumpOf(BumpedInstanceKey) >>
          /\ storage = ret.before
    /\ (InstanceBumpSucceeded /\ ~ret.res.ok) =>
          /\ ret.calls[3] = BumpOf(BumpedInstanceKey)
          /\ Len(BumpsIssued) = 2 =>
                /\ ret.calls[Len(ret.calls)] = BumpsIssued[2]
                /\ BumpsIssued[2].key.kind = "ContractCode"
          /\ DOMAIN storage = DOMAIN ret.before
          /\ storage[BumpedInstanceKey] =
                Storage_bump(ret.before[BumpedInstanceKey], ret.args.low, ret.args.high)
          /\ \A k \in DOMAIN storage :
                k # BumpedInstanceKey => storage[k] = ret.before[k]

\* C38 witness: the bump of the instance raised its expiration, the instance
\* was read, the bump of the code entry failed, and the instance entry still
\* has the raised expiration.
C38_Witness ==
    /\ InstanceBumpSucceeded
    /\ ~ret.res.ok
    /\ Len(BumpsIssued) = 2
    /\ ret.calls[Len(ret.calls)] = BumpOf(CodeKey)
    /\ ret.before[BumpedInstanceKey].expiration < ret.args.low
    /\ storage[BumpedInstanceKey].expiration = ret.args.high

\* C38: the bump of the instance was refused by the storage, with an instance
\* and its code both present.
C38_InstanceBumpRefusedReached ==
    /\ InstanceBumpFailed
    /\ ret.fault = 3
    /\ HoldsInstance(ret.before, BumpedInstanceKey)
    /\ CodeKey \in DOMAIN ret.before

\* C38: the bump of the instance raised its expiration and the read of the
\* instance failed.
C38_ReadFailedReached ==
    /\ InstanceBumpSucceeded
    /\ ~ret.res.ok
    /\ Len(BumpsIssued) = 1
    /\ ret.calls[Len(ret.calls)].fn = "get"
    /\ storage[BumpedInstanceKey].expiration > ret.before[BumpedInstanceKey].expiration

(***************************************************************************)
(* The depth limiter next to every metering operation, from a fresh budget *)
(* and from a budget that unmatched leave() calls have brought one below   *)
(* the largest depth_limit.                                                *)
(***************************************************************************)
InitDepthAny ==
    /\ cpu_insns   = BudgetImpl_default.cpu_insns
    /\ mem_bytes   = BudgetImpl_default.mem_bytes
    /\ tracker     = BudgetImpl_default.tracker
    /\ enabled     = BudgetImpl_default.enabled
    /\ fuel_config = BudgetImpl_default.fuel_config
    /\ \/ depth_limit = BudgetImpl_default.depth_limit /\ balanced = TRUE
       \/ depth_limit = U32_MAX - 1 /\ balanced = FALSE
    /\ free_stack = << >>
    /\ ret = Call("new", "WasmInsnExec", 0, None, Ok)
    /\ charges = 0
    /\ exceeded = FALSE
    /\ nest = 0
    /\ borrow = "free"
    /\ storage = << >>

\* The values of depth_limit explored: those near the default and the two
\* largest.
DepthExplored(d) == d <= DEFAULT_HOST_DEPTH_LIMIT + MaxExtraLeave \/ d >= U32_MAX - 1

EnterAny ==
    /\ DepthExplored(enter(Impl).b.depth_limit)
    /\ Enter

LeaveAny ==
    /\ DepthExplored(leave(Impl).b.depth_limit)
    /\ LET r == leave(Impl)
       IN /\ SetImpl(r.b)
          /\ ret' = Call("leave", "WasmInsnExec", 0, None, r.res)
    /\ nest' = IF nest > 0 THEN nest - 1 ELSE 0
    /\ balanced' = (balanced /\ nest > 0)
    /\ UNCHANGED << borrow, storage, free_stack, charges, exceeded >>

DepthCharge == DoCharge("charge", "HostMemAlloc", 1, Some(1024))

DepthBulkCharge == DoCharge("bulk_charge", "HostMemAlloc", 2, Some(1024))

NextDepthAny ==
    \/ EnterAny
    \/ LeaveAny
    \/ DepthCharge
    \/ DepthBulkCharge
    \/ ResetLimits
    \/ ResetTracker
    \/ WithFreeBudgetBegin
    \/ WithFreeBudgetEnd

SpecDepthAny == InitDepthAny /\ [][NextDepthAny]_vars

MeteringOps ==
    { "charge", "bulk_charge", "reset_limits", "reset_tracker",
      "with_free_budget_begin", "with_free_budget" }

MeteringUnchanged ==
    UNCHANGED << cpu_insns, mem_bytes, tracker, enabled, fuel_config >>

\* C39: no metering operation (charge, bulk_charge, reset_limits,
\* reset_tracker, with_free_budget) changes depth_limit. Whether metering is
\* enabled or not, enter at depth_limit > 0 succeeds and takes 1 from
\* depth_limit, enter at depth_limit = 0 fails with Context/ExceededLimit and
\* leaves it 0, and leave succeeds and adds 1 to depth_limit, which stays at
\* u32::MAX once there; enter and leave change nothing of the metering state.
C39_DepthIndependentOfMetering ==
    [][ /\ ret'.op \in MeteringOps => depth_limit' = depth_limit
        /\ ret'.op = "enter" =>
              /\ MeteringUnchanged
              /\ IF depth_limit = 0
                 THEN ret'.res = ContextExceededLimit /\ depth_limit' = 0
                 ELSE ret'.res = Ok /\ depth_limit' = depth_limit - 1
        /\ ret'.op = "leave" =>
              /\ MeteringUnchanged
              /\ ret'.res = Ok
              /\ depth_limit' = IF depth_limit = U32_MAX THEN U32_MAX ELSE depth_limit + 1
      ]_vars

\* C39 witness: inside with_free_budget (metering off) enter has taken every
\* level and failed with Context/ExceededLimit at depth_limit = 0.
C39_Witness ==
    /\ ~enabled
    /\ free_stack # << >>
    /\ ret.op = "enter"
    /\ ret.res = ContextExceededLimit
    /\ depth_limit = 0
    /\ nest = DEFAULT_HOST_DEPTH_LIMIT

\* C39: leave was called at depth_limit = u32::MAX, metering off.
C39_SaturatedLeaveReached ==
    /\ ~enabled
    /\ ret.op = "leave"
    /\ ret.res = Ok
    /\ depth_limit = U32_MAX
    /\ nest = 0
    /\ ~balanced

\* C39: a charge was refused for the budget while levels were entered; the
\* depth limit is what enter left.
C39_ChargedWhileNestedReached ==
    /\ enabled
    /\ ret.op \in ChargeOps
    /\ charges > 0
    /\ nest = 2
    /\ depth_limit = DEFAULT_HOST_DEPTH_LIMIT - 2
=============================================================================
